---- MODULE Spec2Model ----
(***************************************************************************)
(* Model of project-net: the three-message key exchange between a DEVICE   *)
(* (client.rs) and a SERVER (server.rs), the wire codec                    *)
(* (common/message/send.rs, receive.rs) and the byte-oriented read/write   *)
(* layer (common/mod.rs).                                                  *)
(*                                                                         *)
(* Cryptography is symbolic.  A stream is a sequence of tokens; a token is *)
(* either one byte <<"b", v>> or an opaque block of fixed width (a public  *)
(* key, a key id, a challenge, an authentication tag, an AEAD ciphertext). *)
(***************************************************************************)
EXTENDS Integers, Sequences, FiniteSets, TLC

\* ------------------------------------------------------------------ bounds
\* longest payload handed to write()
MaxLen == 2
\* number of write() calls of the two endpoints together
MaxWrites == 2
\* largest buffer handed to read()
MaxBuf == 2
\* number of tokens the network adversary may replace
MaxTamper == 1
\* reads that an endpoint makes of a stream that is out of step
MaxOutOfStep == 1

\* --------------------------------------------------------- program constants
ERROR == 0
DEVICE_FIRST == 1
SERVER_FIRST == 2
MAX_NOCRYPT == SERVER_FIRST
DEVICE_SECOND == 3
MESSAGE == 4
STOP == 7
CONST_MSG_LEN == 1
STOP_CONTENTS == 0
CHALLENGE_BYTES == 32
PUBLIC_KEY_BYTES == 32
KEY_ID_BYTES == 32
AUTH_TAG_BYTES == 16
HEADER_BYTES == 3
U16_MAX == 65535

\* ------------------------------------------------------------ symbolic data
\* secret keys: long-term of device, server and a third party; ephemeral of
\* device, server and the third party
DeviceLongSk == "ld"
ServerLongSk == "ls"
OtherLongSk == "lx"
DeviceEphSk == "ed"
ServerEphSk == "es"
OtherEphSk == "ex"

\* the server's random challenge and a different 32-byte value
ServerChallenge == "r1"
OtherChallenge == "r2"

B(v) == <<"b", v>>
IsByte(t) == t[1] = "b"

\* gen_keypair: the public half of a secret key
PkOf(sk) == <<"pk", sk>>

\* public_key_from_slice: any 32 bytes are accepted as a public key; bytes
\* that are not a key some party generated have no known secret
SkOf(t) == IF t[1] = "pk" THEN t[2] ELSE "junk"

\* id_of_pk: SHA-256 of the public key
id_of_pk(pk) == <<"id", pk[2]>>

\* key_exchange(their_pk, my_sk, ..): Diffie-Hellman, the same value for
\* (pk(a), b) and (pk(b), a)
key_exchange(pk, sk) == <<"dh", {SkOf(pk), sk}>>

\* hash_two_things: SHA-256(thing1 || thing2)
hash_two_things(thing1, thing2) == <<"h", thing1, thing2>>

\* symmetric::State::new(encryption_key, authentication_key)
NewState(enc, auth) == [enc |-> enc, auth |-> auth]

\* symmetric::State::plain_auth_tag(data, message_number): depends on the
\* authentication key only
plain_auth_tag(st, data, n) == <<"tag", st.auth, data, n>>

\* verify_auth_tag on the 16 received bytes
verify_auth_tag(st, auth_tag, data, n) == auth_tag = <<plain_auth_tag(st, data, n)>>

\* symmetric::State::authenticated_encryption(msg, message_number):
\* |msg| + 16 bytes
authenticated_encryption(st, msg, n) == <<"aead", st, msg, n>>

\* authenticated_decryption: Some(plaintext) or None
DecryptOk(st, ct, n) ==
    /\ Len(ct) = 1
    /\ ct[1][1] = "aead"
    /\ ct[1][2] = st
    /\ ct[1][4] = n

DecryptPlain(ct) == ct[1][3]

RECURSIVE WidthOf(_)
\* number of bytes a token sequence stands for
TokWidth(t) ==
    CASE t[1] = "b" -> 1
      [] t[1] = "pk" -> PUBLIC_KEY_BYTES
      [] t[1] = "id" -> KEY_ID_BYTES
      [] t[1] = "chal" -> CHALLENGE_BYTES
      [] t[1] = "tag" -> AUTH_TAG_BYTES
      [] t[1] = "aead" -> WidthOf(t[3]) + AUTH_TAG_BYTES
      [] t[1] = "junk" -> t[2]
      [] t[1] = "split" -> 0
      [] t[1] = "late" -> 0

WidthOf(s) == IF s = <<>> THEN 0 ELSE TokWidth(Head(s)) + WidthOf(Tail(s))

\* ------------------------------------------------------------- send.rs codec
u16_to_bytes(n) == <<B(n \div 256), B(n % 256)>>

construct_header(opcode, message_number) ==
    <<B(opcode)>> \o u16_to_bytes(message_number)

\* device_first numbering its message 1
device_first_one(long_pk, eph_sk) ==
    construct_header(DEVICE_FIRST, 1) \o <<PkOf(eph_sk), id_of_pk(long_pk)>>

\* send::device_first: header(DEVICE_FIRST, 0) || ephemeral pk || id of long pk
device_first(long_pk, eph_sk) ==
    construct_header(DEVICE_FIRST, 0) \o <<PkOf(eph_sk), id_of_pk(long_pk)>>

\* session keys with the device's state in both directions
server_first_keys_one_state(long_sk, sec_key, device_session_pk, device_long_pk) ==
    LET encryption_key_shared == key_exchange(device_session_pk, sec_key)
        device_enc_key == hash_two_things(encryption_key_shared, "device")
        device_auth_key == key_exchange(device_long_pk, sec_key)
    IN  [from_device |-> NewState(device_enc_key, device_auth_key),
         from_server |-> NewState(device_enc_key, device_auth_key)]

\* the SessionKeys send::server_first derives
server_first_keys(long_sk, sec_key, device_session_pk, device_long_pk) ==
    LET encryption_key_shared == key_exchange(device_session_pk, sec_key)
        device_enc_key == hash_two_things(encryption_key_shared, "device")
        server_enc_key == hash_two_things(encryption_key_shared, "server")
        device_auth_key == key_exchange(device_long_pk, sec_key)
        server_auth_key == key_exchange(device_session_pk, long_sk)
    IN  [from_device |-> NewState(device_enc_key, device_auth_key),
         from_server |-> NewState(server_enc_key, server_auth_key)]

\* the bytes send::server_first writes
server_first(session_keys, long_sk, sec_key, challenge) ==
    LET plaintext == <<PkOf(sec_key)>> \o challenge
        auth_tag == plain_auth_tag(session_keys.from_server, plaintext, 0)
    IN  construct_header(SERVER_FIRST, 0)
            \o <<id_of_pk(PkOf(long_sk))>> \o <<auth_tag>> \o plaintext

\* the SessionKeys send::device_second derives
device_second_keys(server_long_pk, server_session_pk, long_sk, session_sk) ==
    LET from_server_auth == key_exchange(server_long_pk, session_sk)
        from_device_auth == key_exchange(server_session_pk, long_sk)
        encryption_key_shared == key_exchange(server_session_pk, session_sk)
        device_enc_key == hash_two_things(encryption_key_shared, "device")
        server_enc_key == hash_two_things(encryption_key_shared, "server")
    IN  [from_device |-> NewState(device_enc_key, from_device_auth),
         from_server |-> NewState(server_enc_key, from_server_auth)]

\* device_second numbering its message 0
device_second_zero(session_keys, challenge) ==
    construct_header(DEVICE_SECOND, 0)
        \o <<authenticated_encryption(session_keys.from_device, challenge, 1)>>

\* the bytes send::device_second writes
device_second(session_keys, challenge) ==
    construct_header(DEVICE_SECOND, 1)
        \o <<authenticated_encryption(session_keys.from_device, challenge, 1)>>

\* message writing one more than the payload's length into the length field
message_long(msg, session_keys, message_number) ==
    construct_header(MESSAGE, message_number)
        \o u16_to_bytes((Len(msg) + 1) % (U16_MAX + 1))
        \o <<plain_auth_tag(session_keys,
                            u16_to_bytes((Len(msg) + 1) % (U16_MAX + 1)),
                            message_number)>>
        \o <<authenticated_encryption(session_keys, msg, message_number)>>

\* send::message: header || length || tag over length || AEAD(payload)
message(msg, session_keys, message_number) ==
    LET length == u16_to_bytes(Len(msg) % (U16_MAX + 1))
        length_auth_tag == plain_auth_tag(session_keys, length, message_number)
    IN  construct_header(MESSAGE, message_number) \o length
            \o <<length_auth_tag>>
            \o <<authenticated_encryption(session_keys, msg, message_number)>>

const_size_encrypted(opcode, contents, session_keys, message_number) ==
    construct_header(opcode, message_number)
        \o <<authenticated_encryption(session_keys, contents, message_number)>>

\* stop sending the constant 1
stop_other_contents(session_keys, message_number) ==
    const_size_encrypted(STOP, <<B(STOP_CONTENTS + 1)>>, session_keys,
                         message_number)

\* send::stop
stop(session_keys, message_number) ==
    const_size_encrypted(STOP, <<B(STOP_CONTENTS)>>, session_keys, message_number)

\* send::error
error(message_number) == construct_header(ERROR, message_number)

\* ---------------------------------------------------------- receive.rs codec
\* the value of F at x, x worked out once
With(x, F(_)) == CHOOSE v \in {F(y) : y \in {x}} : TRUE

\* the number of whole blocks at the head of s that n bytes hold
WholeTokens(s, n) ==
    CHOOSE k \in 0..Len(s) :
       /\ WidthOf(SubSeq(s, 1, k)) <= n
       /\ k < Len(s) => WidthOf(SubSeq(s, 1, k + 1)) > n

\* k whole blocks and, when bytes are still asked for and there is another
\* block, the part of it that is cut off: bytes without meaning
TakeWhole(s, n, k) ==
    IF k = Len(s) \/ WidthOf(SubSeq(s, 1, k)) = n
    THEN [bytes |-> SubSeq(s, 1, k), rest |-> SubSeq(s, k + 1, Len(s)),
          got |-> WidthOf(SubSeq(s, 1, k))]
    ELSE [bytes |-> SubSeq(s, 1, k)
                       \o << <<"junk", n - WidthOf(SubSeq(s, 1, k))>> >>,
          rest |-> << <<"junk", WidthOf(SubSeq(s, 1, k + 1)) - n>> >>
                       \o SubSeq(s, k + 2, Len(s)),
          got |-> n]

TakeBytesOf(s, n) == With(WholeTokens(s, n), LAMBDA k : TakeWhole(s, n, k))

\* marks in the stream of where the arrival of its bytes pauses: at "split"
\* the bytes behind it arrive a moment later (the next segment), at "late"
\* they arrive only after the read timeout of the reader has run out
IsGap(t) == t[1] = "split" \/ t[1] = "late"

FirstGap(s) ==
    IF \E i \in 1..Len(s) : IsGap(s[i])
    THEN CHOOSE i \in 1..Len(s) : IsGap(s[i]) /\ \A j \in 1..(i - 1) : ~IsGap(s[j])
    ELSE 0

RECURSIVE TakeAtGap(_, _, _)
\* source.read(&mut buffer) with n bytes of room, the arrival pausing before
\* token g: the bytes at hand if there are n of them; else the fewer that
\* are at hand, if any; else, with none at hand, the read waits for the
\* next segment, or returns the error of the timeout
TakeAtGap(s, n, g) ==
    IF g = 0 THEN TakeBytesOf(s, n)
    ELSE IF WidthOf(SubSeq(s, 1, g - 1)) >= n
    THEN With(TakeBytesOf(SubSeq(s, 1, g - 1), n),
              LAMBDA t : [t EXCEPT !.rest = @ \o SubSeq(s, g, Len(s))])
    ELSE IF g > 1
    THEN [bytes |-> SubSeq(s, 1, g - 1), rest |-> SubSeq(s, g + 1, Len(s)),
          got |-> WidthOf(SubSeq(s, 1, g - 1))]
    ELSE IF s[1][1] = "split"
    THEN With(Tail(s), LAMBDA later : TakeAtGap(later, n, FirstGap(later)))
    ELSE [bytes |-> <<>>, rest |-> s, got |-> 0]

\* one read() of up to n bytes from the stream
TakeBytes(s, n) == With(s, LAMBDA src : TakeAtGap(src, n, FirstGap(src)))

\* Ok(buffer), Err(Error::Read(e)) when the read itself failed, or
\* Err(Error::NotEnoughRead(bytes_read))
GotBytes(t, n) ==
    [ok |-> t.got = n, bytes |-> t.bytes, rest |-> t.rest,
     err |-> IF t.got = n THEN "none"
             ELSE IF t.got = 0 /\ t.rest # <<>> /\ t.rest[1][1] = "late"
             THEN "Read"
             ELSE "NotEnoughRead"]

\* get_n_bytes: a single read; fewer bytes than asked for is NotEnoughRead
get_n_bytes(source, n) == With(TakeBytes(source, n), LAMBDA t : GotBytes(t, n))

\* fixed-width bytes read as one value (a key, a digest)
AsBlock(bytes) == IF Len(bytes) = 1 THEN bytes[1] ELSE <<"junk", WidthOf(bytes)>>

\* slice::split_at
split_at(bytes, n) == TakeBytes(bytes, n)

two_bytes_to_u16(bytes) == bytes[2][2] + bytes[1][2] * 256

AllBytes(bytes) == \A i \in 1..Len(bytes) : IsByte(bytes[i])

\* the header in three received bytes; bytes that were cut out of a block
\* read as the opcode and number g
HeaderOf(h, g) ==
    IF ~h.ok
    THEN [ok |-> FALSE, opcode |-> 0, number |-> 0, rest |-> h.rest, err |-> h.err]
    ELSE IF AllBytes(h.bytes)
    THEN [ok |-> TRUE, opcode |-> h.bytes[1][2],
          number |-> two_bytes_to_u16(SubSeq(h.bytes, 2, 3)), rest |-> h.rest,
          err |-> h.err]
    ELSE [ok |-> TRUE, opcode |-> g.opcode, number |-> g.number, rest |-> h.rest,
          err |-> h.err]

\* get_header: opcode and message number of the next 3 bytes
get_header(source, g) ==
    With(get_n_bytes(source, HEADER_BYTES), LAMBDA h : HeaderOf(h, g))

\* results of the receive functions: Ok(Message{number, content}) or Err(e),
\* with the stream left behind and what the call did on the way
NoContent == <<"none">>
RecvErr(e, opcode, number, rest, lookup, crypto) ==
    [ok |-> FALSE, err |-> e, opcode |-> opcode, number |-> number,
     content |-> NoContent, rest |-> rest, lookup |-> lookup, crypto |-> crypto]
RecvOk(opcode, number, content, rest, lookup, crypto) ==
    [ok |-> TRUE, err |-> "none", opcode |-> opcode, number |-> number,
     content |-> content, rest |-> rest, lookup |-> lookup, crypto |-> crypto]

\* key_id::find_public_key in a trusted map given as a set of public keys
Trusts(trusted_pks, key_id) ==
    key_id[1] = "id" /\ \E pk \in trusted_pks : id_of_pk(pk) = key_id
find_public_key(key_id, trusted_pks) ==
    CHOOSE pk \in trusted_pks : id_of_pk(pk) = key_id

\* parse_clear_message, DEVICE_FIRST: the key id after the public key
DeviceFirstKeyId(opcode, message_number, pub_key_bytes, key_id_bytes) ==
    IF ~key_id_bytes.ok
    THEN RecvErr(key_id_bytes.err, opcode, message_number, key_id_bytes.rest,
                 FALSE, FALSE)
    ELSE RecvOk(opcode, message_number,
                <<"DeviceFirst", AsBlock(pub_key_bytes.bytes),
                  AsBlock(key_id_bytes.bytes)>>,
                key_id_bytes.rest, FALSE, FALSE)

\* parse_clear_message, DEVICE_FIRST: the public key
DeviceFirstPubKey(opcode, message_number, pub_key_bytes) ==
    IF ~pub_key_bytes.ok
    THEN RecvErr(pub_key_bytes.err, opcode, message_number, pub_key_bytes.rest,
                 FALSE, FALSE)
    ELSE With(get_n_bytes(pub_key_bytes.rest, KEY_ID_BYTES),
              LAMBDA key_id_bytes :
                 DeviceFirstKeyId(opcode, message_number, pub_key_bytes,
                                  key_id_bytes))

\* parse_clear_message taking an ERROR only with the number 0
parse_clear_message_zero(rest, opcode, message_number) ==
    IF opcode = ERROR
    THEN IF message_number # 0
         THEN RecvErr("BadPacket", opcode, message_number, rest, FALSE, FALSE)
         ELSE RecvOk(opcode, message_number, <<"Error">>, rest, FALSE, FALSE)
    ELSE IF opcode = DEVICE_FIRST
    THEN IF message_number # 0
         THEN RecvErr("BadPacket", opcode, message_number, rest, FALSE, FALSE)
         ELSE With(get_n_bytes(rest, PUBLIC_KEY_BYTES),
                   LAMBDA pub_key_bytes :
                      DeviceFirstPubKey(opcode, message_number, pub_key_bytes))
    ELSE RecvErr("InvalidOpcode", opcode, message_number, rest, FALSE, FALSE)

\* parse_clear_message taking nothing but an ERROR
parse_clear_message_error_only(rest, opcode, message_number) ==
    IF opcode = ERROR
    THEN RecvOk(opcode, message_number, <<"Error">>, rest, FALSE, FALSE)
    ELSE RecvErr("InvalidOpcode", opcode, message_number, rest, FALSE, FALSE)

parse_clear_message(rest, opcode, message_number) ==
    IF opcode = ERROR
    THEN RecvOk(opcode, message_number, <<"Error">>, rest, FALSE, FALSE)
    ELSE IF opcode = DEVICE_FIRST
    THEN IF message_number # 0
         THEN RecvErr("BadPacket", opcode, message_number, rest, FALSE, FALSE)
         ELSE With(get_n_bytes(rest, PUBLIC_KEY_BYTES),
                   LAMBDA pub_key_bytes :
                      DeviceFirstPubKey(opcode, message_number, pub_key_bytes))
    ELSE RecvErr("InvalidOpcode", opcode, message_number, rest, FALSE, FALSE)

ReceiveDeviceFirstOn(h) ==
    IF ~h.ok THEN RecvErr(h.err, 0, 0, h.rest, FALSE, FALSE)
    ELSE parse_clear_message(h.rest, h.opcode, h.number)

receive_device_first(source, g) ==
    With(get_header(source, g), LAMBDA h : ReceiveDeviceFirstOn(h))

\* receive::server_first: the public key and challenge, once the tag verified
ServerFirstContent(h, rest, server_long_pk, s3) ==
    RecvOk(h.opcode, h.number,
           <<"ServerFirst", AsBlock(s3.bytes), s3.rest, server_long_pk>>,
           rest, TRUE, TRUE)

\* server_first taking the content without verifying the tag
ServerFirstUnverified(h, rest, server_long_pk, auth_tag, the_rest, sk_session) ==
    With(split_at(the_rest, PUBLIC_KEY_BYTES),
         LAMBDA s3 : ServerFirstContent(h, rest, server_long_pk, s3))

\* receive::server_first: derive the authentication key, verify the tag
ServerFirstVerify(h, rest, server_long_pk, auth_tag, the_rest, sk_session) ==
    IF ~verify_auth_tag(NewState(key_exchange(server_long_pk, sk_session),
                                 key_exchange(server_long_pk, sk_session)),
                        auth_tag, the_rest, h.number)
    THEN RecvErr("Crypto", h.opcode, h.number, rest, TRUE, TRUE)
    ELSE With(split_at(the_rest, PUBLIC_KEY_BYTES),
              LAMBDA s3 : ServerFirstContent(h, rest, server_long_pk, s3))

\* receive::server_first: look the key id up
ServerFirstLookup(h, rest, key_id, s2, sk_session, trusted_pks) ==
    IF ~Trusts(trusted_pks, key_id)
    THEN RecvErr("PubKeyId", h.opcode, h.number, rest, TRUE, FALSE)
    ELSE With(find_public_key(key_id, trusted_pks),
              LAMBDA server_long_pk :
                 ServerFirstVerify(h, rest, server_long_pk, s2.bytes, s2.rest,
                                   sk_session))

ServerFirstSplit(h, rest, s1, sk_session, trusted_pks) ==
    With(split_at(s1.rest, AUTH_TAG_BYTES),
         LAMBDA s2 : ServerFirstLookup(h, rest, AsBlock(s1.bytes), s2,
                                       sk_session, trusted_pks))

ServerFirstBody(h, buff, sk_session, trusted_pks) ==
    IF ~buff.ok
    THEN RecvErr(buff.err, h.opcode, h.number, buff.rest, FALSE, FALSE)
    ELSE With(split_at(buff.bytes, KEY_ID_BYTES),
              LAMBDA s1 : ServerFirstSplit(h, buff.rest, s1, sk_session,
                                           trusted_pks))

ReceiveServerFirstOn(h, sk_session, trusted_pks) ==
    IF ~h.ok THEN RecvErr(h.err, 0, 0, h.rest, FALSE, FALSE)
    ELSE IF h.opcode = ERROR
    THEN RecvOk(h.opcode, h.number, <<"Error">>, h.rest, FALSE, FALSE)
    ELSE IF h.opcode = SERVER_FIRST
    THEN IF h.number # 0
         THEN RecvErr("BadPacket", h.opcode, h.number, h.rest, FALSE, FALSE)
         ELSE With(get_n_bytes(h.rest, PUBLIC_KEY_BYTES + CHALLENGE_BYTES
                                           + KEY_ID_BYTES + AUTH_TAG_BYTES),
                   LAMBDA buff : ServerFirstBody(h, buff, sk_session, trusted_pks))
    ELSE RecvErr("InvalidOpcode", h.opcode, h.number, h.rest, FALSE, FALSE)

\* receive::server_first, run by the device
receive_server_first(source, sk_session, trusted_pks, g) ==
    With(get_header(source, g),
         LAMBDA h : ReceiveServerFirstOn(h, sk_session, trusted_pks))

\* sodiumoxide memcmp: equal lengths and equal bytes
memcmp(x, y) == x = y

\* device_second accepting any plaintext that decrypts
DeviceSecondNoCompare(h, contents, session_keys, challenge) ==
    IF ~contents.ok
    THEN RecvErr(contents.err, h.opcode, h.number, contents.rest, FALSE, FALSE)
    ELSE IF ~DecryptOk(session_keys.from_device, contents.bytes, h.number)
    THEN RecvErr("Crypto", h.opcode, h.number, contents.rest, FALSE, TRUE)
    ELSE RecvOk(h.opcode, h.number, <<"DeviceSecond">>, contents.rest, FALSE, TRUE)

\* receive::device_second: decrypt, compare with the challenge sent
DeviceSecondBody(h, contents, session_keys, challenge) ==
    IF ~contents.ok
    THEN RecvErr(contents.err, h.opcode, h.number, contents.rest, FALSE, FALSE)
    ELSE IF ~DecryptOk(session_keys.from_device, contents.bytes, h.number)
    THEN RecvErr("Crypto", h.opcode, h.number, contents.rest, FALSE, TRUE)
    ELSE IF memcmp(DecryptPlain(contents.bytes), challenge)
    THEN RecvOk(h.opcode, h.number, <<"DeviceSecond">>, contents.rest, FALSE, TRUE)
    ELSE RecvErr("Crypto", h.opcode, h.number, contents.rest, FALSE, TRUE)

\* device_second reading the body whatever the number in the header
ReceiveDeviceSecondAnyNumber(h, session_keys, challenge) ==
    IF ~h.ok THEN RecvErr(h.err, 0, 0, h.rest, FALSE, FALSE)
    ELSE IF h.opcode = ERROR
    THEN RecvOk(h.opcode, h.number, <<"Error">>, h.rest, FALSE, FALSE)
    ELSE IF h.opcode = DEVICE_SECOND
    THEN With(get_n_bytes(h.rest, CHALLENGE_BYTES + AUTH_TAG_BYTES),
              LAMBDA contents :
                 DeviceSecondBody(h, contents, session_keys, challenge))
    ELSE RecvErr("InvalidOpcode", h.opcode, h.number, h.rest, FALSE, FALSE)

ReceiveDeviceSecondOn(h, session_keys, challenge) ==
    IF ~h.ok THEN RecvErr(h.err, 0, 0, h.rest, FALSE, FALSE)
    ELSE IF h.opcode = ERROR
    THEN RecvOk(h.opcode, h.number, <<"Error">>, h.rest, FALSE, FALSE)
    ELSE IF h.opcode = DEVICE_SECOND
    THEN IF h.number # 1
         THEN RecvErr("BadPacket", h.opcode, h.number, h.rest, FALSE, FALSE)
         ELSE With(get_n_bytes(h.rest, CHALLENGE_BYTES + AUTH_TAG_BYTES),
                   LAMBDA contents :
                      DeviceSecondBody(h, contents, session_keys, challenge))
    ELSE RecvErr("InvalidOpcode", h.opcode, h.number, h.rest, FALSE, FALSE)

\* receive::device_second, run by the server
receive_device_second(source, session_keys, challenge, g) ==
    With(get_header(source, g),
         LAMBDA h : ReceiveDeviceSecondOn(h, session_keys, challenge))

\* a STOP body decrypted without binding the nonce to the header number
ConstantContentsAnyNonce(ciphertext, opcode, message_number, session_keys) ==
    IF ~ciphertext.ok
    THEN RecvErr(ciphertext.err, opcode, message_number, ciphertext.rest,
                 FALSE, FALSE)
    ELSE IF ~(/\ Len(ciphertext.bytes) = 1
              /\ ciphertext.bytes[1][1] = "aead"
              /\ ciphertext.bytes[1][2] = session_keys)
    THEN RecvErr("Crypto", opcode, message_number, ciphertext.rest, FALSE, TRUE)
    ELSE IF DecryptPlain(ciphertext.bytes) = <<B(STOP_CONTENTS)>>
    THEN RecvOk(opcode, message_number, <<"Stop">>, ciphertext.rest, FALSE, TRUE)
    ELSE RecvErr("Crypto", opcode, message_number, ciphertext.rest, FALSE, TRUE)

ConstantContentsBody(ciphertext, opcode, message_number, session_keys) ==
    IF ~ciphertext.ok
    THEN RecvErr(ciphertext.err, opcode, message_number, ciphertext.rest,
                 FALSE, FALSE)
    ELSE IF ~DecryptOk(session_keys, ciphertext.bytes, message_number)
    THEN RecvErr("Crypto", opcode, message_number, ciphertext.rest, FALSE, TRUE)
    ELSE IF WidthOf(DecryptPlain(ciphertext.bytes)) # CONST_MSG_LEN
    THEN RecvErr("BadPacket", opcode, message_number, ciphertext.rest, FALSE, TRUE)
    ELSE IF DecryptPlain(ciphertext.bytes)[1] = B(STOP_CONTENTS)
    THEN RecvOk(opcode, message_number, <<"Stop">>, ciphertext.rest, FALSE, TRUE)
    ELSE RecvErr("Crypto", opcode, message_number, ciphertext.rest, FALSE, TRUE)

parse_constant_contents_message(rest, opcode, message_number, session_keys) ==
    With(get_n_bytes(rest, CONST_MSG_LEN + AUTH_TAG_BYTES),
         LAMBDA ciphertext :
            ConstantContentsBody(ciphertext, opcode, message_number,
                                 session_keys))

\* parse_crypt_message, MESSAGE: decrypt the ciphertext
MessageCiphertext(ciphertext, opcode, message_number, session_keys) ==
    IF ~ciphertext.ok
    THEN RecvErr(ciphertext.err, opcode, message_number, ciphertext.rest,
                 FALSE, TRUE)
    ELSE IF ~DecryptOk(session_keys, ciphertext.bytes, message_number)
    THEN RecvErr("Crypto", opcode, message_number, ciphertext.rest, FALSE, TRUE)
    ELSE RecvOk(opcode, message_number,
                <<"Message", DecryptPlain(ciphertext.bytes)>>,
                ciphertext.rest, FALSE, TRUE)

\* the length used to size the read without its tag being verified
MessageLengthUnverified(rest, s1, opcode, message_number, session_keys) ==
    With(get_n_bytes(rest, two_bytes_to_u16(s1.bytes) + AUTH_TAG_BYTES),
         LAMBDA ciphertext :
            MessageCiphertext(ciphertext, opcode, message_number, session_keys))

\* parse_crypt_message, MESSAGE: verify the tag on the length, then read
\* length + 16 bytes
MessageLength(rest, s1, opcode, message_number, session_keys) ==
    IF ~verify_auth_tag(session_keys, s1.rest, s1.bytes, message_number)
    THEN RecvErr("Crypto", opcode, message_number, rest, FALSE, TRUE)
    ELSE With(get_n_bytes(rest, two_bytes_to_u16(s1.bytes) + AUTH_TAG_BYTES),
              LAMBDA ciphertext :
                 MessageCiphertext(ciphertext, opcode, message_number,
                                   session_keys))

MessageFixedFields(fixed_fields, opcode, message_number, session_keys) ==
    IF ~fixed_fields.ok
    THEN RecvErr(fixed_fields.err, opcode, message_number, fixed_fields.rest,
                 FALSE, FALSE)
    ELSE With(split_at(fixed_fields.bytes, 2),
              LAMBDA s1 : MessageLength(fixed_fields.rest, s1, opcode,
                                        message_number, session_keys))

\* parse_crypt_message with the ACK arm: opcode 5 followed by an encrypted
\* message number
parse_crypt_message_ack(rest, opcode, message_number, session_keys) ==
    IF opcode = ERROR
    THEN RecvOk(opcode, message_number, <<"Error">>, rest, FALSE, FALSE)
    ELSE IF opcode = MESSAGE
    THEN With(get_n_bytes(rest, 2 + AUTH_TAG_BYTES),
              LAMBDA fixed_fields :
                 MessageFixedFields(fixed_fields, opcode, message_number,
                                    session_keys))
    ELSE IF opcode = STOP
    THEN parse_constant_contents_message(rest, opcode, message_number, session_keys)
    ELSE IF opcode = 5
    THEN With(get_n_bytes(rest, 2 + AUTH_TAG_BYTES),
              LAMBDA ciphertext :
                 MessageCiphertext(ciphertext, opcode, message_number,
                                   session_keys))
    ELSE RecvErr("InvalidOpcode", opcode, message_number, rest, FALSE, FALSE)

parse_crypt_message(rest, opcode, message_number, session_keys) ==
    IF opcode = ERROR
    THEN RecvOk(opcode, message_number, <<"Error">>, rest, FALSE, FALSE)
    ELSE IF opcode = MESSAGE
    THEN With(get_n_bytes(rest, 2 + AUTH_TAG_BYTES),
              LAMBDA fixed_fields :
                 MessageFixedFields(fixed_fields, opcode, message_number,
                                    session_keys))
    ELSE IF opcode = STOP
    THEN parse_constant_contents_message(rest, opcode, message_number, session_keys)
    ELSE RecvErr("InvalidOpcode", opcode, message_number, rest, FALSE, FALSE)

GeneralOn(h, session_keys) ==
    IF ~h.ok THEN RecvErr(h.err, 0, 0, h.rest, FALSE, FALSE)
    ELSE IF h.opcode <= MAX_NOCRYPT
    THEN parse_clear_message(h.rest, h.opcode, h.number)
    ELSE parse_crypt_message(h.rest, h.opcode, h.number, session_keys)

\* receive::general
general(source, session_keys, g) ==
    With(get_header(source, g), LAMBDA h : GeneralOn(h, session_keys))

\* ------------------------------------------------------------------- state
Endpoints == {"device", "server"}
Peer(e) == IF e = "device" THEN "server" ELSE "device"

VARIABLES
    ep,         \* ep[e]: the endpoint's position in start / do_key_exchange and
                \* its ProtocolState, read_buff and socket
    net,        \* net[e]: bytes e has written to the transport, not yet read
    emitted,    \* emitted[e]: the records e has written, in order
    rxlog,      \* rxlog[e]: the receive calls e made during the key exchange
    decoded,    \* decoded[e]: the records receive::general returned Ok for
    delivered,  \* delivered[e]: the bytes read() has returned to e's caller
    tampered,   \* number of tokens replaced in flight
    ret,        \* ret[e]: what e's last call of read() or write() returned
    other       \* the connection of the server's other thread, if there is one

session == <<ep, net, emitted, rxlog, decoded, delivered, tampered, ret>>
vars == <<ep, net, emitted, rxlog, decoded, delivered, tampered, ret, other>>

\* a server with one connection
NoOther == [now |-> 1, parked |-> <<>>]

NoError == <<"none", "none">>
NoState == NewState(<<"none">>, <<"none">>)
NoKeys == [from_device |-> NoState, from_server |-> NoState]
NoGuess == [opcode |-> 255, number |-> 0]

\* the return of a call on an endpoint's session, with what the endpoint held
\* when the call was made: err is the io::Error the caller gets, cause the
\* message::Error behind it, got whether receive::general returned a message
\* (source: the stream as it was, kept for a read that timed out)
Returned(e, call, err, m, n) ==
    [call |-> call, ok |-> err = "none", err |-> err, n |-> n,
     got |-> m.ok, cause |-> m.err, opcode |-> m.opcode, number |-> m.number,
     expected |-> ep[e].next_recv_n, send_n |-> ep[e].next_send_n,
     held |-> ep[e].read_buff, emits |-> Len(emitted[e]), open |-> ep[e].open,
     source |-> IF err = "WouldBlock" THEN net[Peer(e)] ELSE <<>>]
NoMessage == [ok |-> FALSE, err |-> "none", opcode |-> 255, number |-> 0]
NoCall ==
    [call |-> "none", ok |-> TRUE, err |-> "none", n |-> 0,
     got |-> FALSE, cause |-> "none", opcode |-> 255, number |-> 0,
     expected |-> 0, send_n |-> 0, held |-> <<>>, emits |-> 0, open |-> TRUE,
     source |-> <<>>]

LongSk(e) == IF e = "device" THEN DeviceLongSk ELSE ServerLongSk
EphSk(e) == IF e = "device" THEN DeviceEphSk ELSE ServerEphSk

\* the trusted maps the application may hand to each endpoint
TrustedChoices(e) ==
    { {PkOf(LongSk(Peer(e))), PkOf(OtherLongSk)}, {PkOf(OtherLongSk)} }

InitEndpoint(e, trusted) ==
    [pc |-> IF e = "device" THEN "start" ELSE "wait_device_first",
     err |-> NoError,
     open |-> TRUE,
     trusted_pks |-> trusted,
     expected_next_n |-> 0,
     session_keys |-> NoKeys,
     challenge |-> <<>>,
     next_send_n |-> 0,
     next_recv_n |-> 0,
     read_buff |-> <<>>,
     writes |-> 0, out_of_step |-> 0, timeout |-> FALSE,
     long_sk |-> LongSk(e), eph_sk |-> EphSk(e), fresh |-> ServerChallenge]

Init ==
    /\ \E td \in TrustedChoices("device"), ts \in TrustedChoices("server") :
          ep = [e \in Endpoints |->
                  InitEndpoint(e, IF e = "device" THEN td ELSE ts)]
    /\ net = [e \in Endpoints |-> <<>>]
    /\ emitted = [e \in Endpoints |-> <<>>]
    /\ rxlog = [e \in Endpoints |-> <<>>]
    /\ decoded = [e \in Endpoints |-> <<>>]
    /\ delivered = [e \in Endpoints |-> <<>>]
    /\ tampered = 0
    /\ ret = [e \in Endpoints |-> NoCall]
    /\ other = NoOther

\* ------------------------------------------------------------ common/mod.rs
\* check_message_n: [ok, next_n]
check_message_n(next_n, number) ==
    IF number # next_n THEN [ok |-> FALSE, next_n |-> next_n]
    ELSE IF next_n = U16_MAX THEN [ok |-> FALSE, next_n |-> next_n]
    ELSE [ok |-> TRUE, next_n |-> next_n + 1]

\* a record as the ghost logs keep it
Rec(opcode, number, data) == [opcode |-> opcode, number |-> number, data |-> data]

\* the tokens of source a receive call took (the last one maybe in part)
Taken(source, rest) ==
    IF rest = SubSeq(source, Len(source) - Len(rest) + 1, Len(source))
    THEN SubSeq(source, 1, Len(source) - Len(rest))
    ELSE SubSeq(source, 1, Len(source) - Len(rest) + 1)

\* a receive call as rxlog keeps it
RxEntry(call, source, r) ==
    [call |-> call, taken |-> Taken(source, r.rest), ok |-> r.ok, err |-> r.err, opcode |-> r.opcode,
     number |-> r.number, content |-> r.content,
     consumed |-> WidthOf(source) - WidthOf(r.rest),
     lookup |-> r.lookup, crypto |-> r.crypto]

\* the stream e reads from, and whether a read of it returns at once
Source(e) == net[Peer(e)]
CanRead(e) == Source(e) # <<>> \/ ~ep[Peer(e)].open \/ ~ep[e].open

LogRx(e, call, source, r) ==
    IF source = <<>> THEN rxlog
    ELSE [rxlog EXCEPT ![e] = Append(@, RxEntry(call, source, r))]

\* a record written to the transport, as emitted keeps it
RecOf(bytes, data) ==
    Rec(bytes[1][2], two_bytes_to_u16(SubSeq(bytes, 2, 3)), data)

\* the transport after e took its source down to rest and wrote out; a write
\* on a socket that was shut down puts nothing on the wire
NetAfter(e, rest, out) ==
    [net EXCEPT ![Peer(e)] = rest,
                ![e] = IF ep[e].open THEN @ \o out ELSE @]
EmittedAfter(e, bytes, data) ==
    IF ep[e].open /\ bytes # <<>>
    THEN [emitted EXCEPT ![e] = Append(@, RecOf(bytes, data))]
    ELSE emitted

\* start / do_key_exchange returning Err: the stream is shut down or dropped
EpFail(e, stage, kind) ==
    [ep EXCEPT ![e].pc = "failed", ![e].err = <<stage, kind>>, ![e].open = FALSE]

\* stream.shutdown(Shutdown::Both).unwrap() right after send_error has shut
\* the stream down: where the second shutdown is an error (NotConnected) the
\* unwrap panics and start / do_key_exchange does not return
EpPanic(e) ==
    [ep EXCEPT ![e].pc = "crashed", ![e].open = FALSE]

\* an error return of start / do_key_exchange: with send_error and the second
\* shutdown, or with neither
Abort(e, rest, send, stage, kind) ==
    /\ net' = NetAfter(e, rest, send)
    /\ emitted' = EmittedAfter(e, send, <<>>)
    /\ ep' \in {EpFail(e, stage, kind)}
                 \cup (IF send # <<>> THEN {EpPanic(e)} ELSE {})

\* ---------------------------------------------------------------- client.rs
\* client::start up to the first blocking read: send device_first
ClientSend(out) ==
    /\ net' = NetAfter("device", Source("device"), out)
    /\ emitted' = EmittedAfter("device", out, <<>>)
    /\ ep' = [ep EXCEPT !["device"].pc = "wait_server_first"]

ClientStart ==
    /\ ep["device"].pc = "start"
    /\ ClientSend(device_first(PkOf(ep["device"].long_sk), ep["device"].eph_sk))
    /\ UNCHANGED <<rxlog, decoded, delivered, tampered, ret>>
    /\ UNCHANGED other

\* start returning a Client that numbers its first record 1
ClientReadySendOne(rest, chk, session_keys, out) ==
    /\ net' = NetAfter("device", rest, out)
    /\ emitted' = EmittedAfter("device", out, <<>>)
    /\ ep' = [ep EXCEPT !["device"].pc = "ready",
                        !["device"].expected_next_n = chk.next_n,
                        !["device"].session_keys = session_keys,
                        !["device"].next_send_n = 1,
                        !["device"].next_recv_n = chk.next_n]

\* the Client that start returns
ClientReady(rest, chk, session_keys, out) ==
    /\ net' = NetAfter("device", rest, out)
    /\ emitted' = EmittedAfter("device", out, <<>>)
    /\ ep' = [ep EXCEPT !["device"].pc = "ready",
                        !["device"].expected_next_n = chk.next_n,
                        !["device"].session_keys = session_keys,
                        !["device"].next_send_n = 2,
                        !["device"].next_recv_n = chk.next_n]

\* send::device_second with the content of server_first
ClientSendSecond(r, chk, session_keys) ==
    \E out \in {device_second(session_keys, r.content[3])} :
       ClientReady(r.rest, chk, session_keys, out)

ClientChecked(r, chk) ==
    IF ~chk.ok
    THEN Abort("device", r.rest, error(1), "BadMessageN", "none")
    ELSE IF r.content[1] # "ServerFirst"
    THEN Abort("device", r.rest, <<>>, "ServerFirst", "InvalidOpcode")
    ELSE \E session_keys \in {device_second_keys(r.content[4], r.content[2],
                                                 ep["device"].long_sk,
                                                 ep["device"].eph_sk)} :
            ClientSendSecond(r, chk, session_keys)

ClientOnServerFirst(src, r) ==
    /\ rxlog' = LogRx("device", "server_first", src, r)
    /\ IF ~r.ok
       THEN Abort("device", r.rest, error(1), "ServerFirst", r.err)
       ELSE \E chk \in {check_message_n(ep["device"].expected_next_n, r.number)} :
               ClientChecked(r, chk)

\* client::start from receive::server_first to its return
ClientServerFirst ==
    /\ ep["device"].pc = "wait_server_first"
    /\ CanRead("device")
    /\ \E r \in {receive_server_first(Source("device"), ep["device"].eph_sk,
                                      ep["device"].trusted_pks, NoGuess)} :
          ClientOnServerFirst(Source("device"), r)
    /\ UNCHANGED <<decoded, delivered, tampered, ret>>
    /\ UNCHANGED other

\* ---------------------------------------------------------------- server.rs
ServerSent(rest, chk, session_keys, challenge, out) ==
    /\ net' = NetAfter("server", rest, out)
    /\ emitted' = EmittedAfter("server", out, <<>>)
    /\ ep' = [ep EXCEPT !["server"].pc = "wait_device_second",
                        !["server"].expected_next_n = chk.next_n,
                        !["server"].session_keys = session_keys,
                        !["server"].challenge = challenge]

\* send::server_first with a fresh ephemeral key and challenge
ServerSendFirst(rest, chk, session_keys, challenge) ==
    \E out \in {server_first(session_keys, ServerLongSk, ep["server"].eph_sk, challenge)} :
       ServerSent(rest, chk, session_keys, challenge, out)

\* do_key_exchange going on with another key when the id is not trusted
ServerCheckedAnyId(m, chk) ==
    IF ~chk.ok
    THEN Abort("server", m.rest, error(0), "BadMessageN", "none")
    ELSE IF m.content[1] # "DeviceFirst"
    THEN Abort("server", m.rest, error(0), "DeviceFirst", "InvalidOpcode")
    ELSE \E session_keys \in
             {server_first_keys(ServerLongSk, ep["server"].eph_sk, m.content[2],
                  IF Trusts(ep["server"].trusted_pks, m.content[3])
                  THEN find_public_key(m.content[3], ep["server"].trusted_pks)
                  ELSE PkOf(OtherLongSk))} :
            ServerSendFirst(m.rest, chk, session_keys,
                            << <<"chal", ep["server"].fresh>> >>)

ServerChecked(m, chk) ==
    IF ~chk.ok
    THEN Abort("server", m.rest, error(0), "BadMessageN", "none")
    ELSE IF m.content[1] # "DeviceFirst"
    THEN Abort("server", m.rest, error(0), "DeviceFirst", "InvalidOpcode")
    ELSE IF ~Trusts(ep["server"].trusted_pks, m.content[3])
    THEN Abort("server", m.rest, <<>>, "DeviceFirst", "PubKeyId")
    ELSE \E session_keys \in
             {server_first_keys(ServerLongSk, ep["server"].eph_sk, m.content[2],
                  find_public_key(m.content[3], ep["server"].trusted_pks))} :
            ServerSendFirst(m.rest, chk, session_keys,
                            << <<"chal", ep["server"].fresh>> >>)

ServerOnDeviceFirst(src, m) ==
    /\ rxlog' = LogRx("server", "device_first", src, m)
    /\ IF ~m.ok
       THEN Abort("server", m.rest, error(0), "DeviceFirst", m.err)
       ELSE \E chk \in {check_message_n(ep["server"].expected_next_n, m.number)} :
               ServerChecked(m, chk)

\* do_key_exchange from receive_device_first to send::server_first
ServerDeviceFirst ==
    /\ ep["server"].pc = "wait_device_first"
    /\ CanRead("server")
    /\ \E m \in {receive_device_first(Source("server"), NoGuess)} :
          ServerOnDeviceFirst(Source("server"), m)
    /\ UNCHANGED <<decoded, delivered, tampered, ret>>
    /\ UNCHANGED other

\* the Server that do_key_exchange returns
ServerReady(rest, chk) ==
    /\ net' = NetAfter("server", rest, <<>>)
    /\ emitted' = emitted
    /\ ep' = [ep EXCEPT !["server"].pc = "ready",
                        !["server"].expected_next_n = chk.next_n,
                        !["server"].next_send_n = 1,
                        !["server"].next_recv_n = chk.next_n]

ServerCheckedSecond(m, chk) ==
    IF ~chk.ok
    THEN Abort("server", m.rest, error(1), "BadMessageN", "none")
    ELSE IF m.content[1] # "DeviceSecond"
    THEN Abort("server", m.rest, error(1), "DeviceFirst", "InvalidOpcode")
    ELSE ServerReady(m.rest, chk)

ServerOnDeviceSecond(src, m) ==
    /\ rxlog' = LogRx("server", "device_second", src, m)
    /\ IF ~m.ok
       THEN Abort("server", m.rest, error(1), "DeviceSecond", m.err)
       ELSE \E chk \in {check_message_n(ep["server"].expected_next_n, m.number)} :
               ServerCheckedSecond(m, chk)

\* do_key_exchange from receive::device_second to its return
ServerDeviceSecond ==
    /\ ep["server"].pc = "wait_device_second"
    /\ CanRead("server")
    /\ \E m \in {receive_device_second(Source("server"),
                                       ep["server"].session_keys,
                                       ep["server"].challenge, NoGuess)} :
          ServerOnDeviceSecond(Source("server"), m)
    /\ UNCHANGED <<decoded, delivered, tampered, ret>>
    /\ UNCHANGED other

\* ------------------------------------------------- record layer, common/mod.rs
\* which SymmetricState an endpoint sends with and receives with
SendState(e) ==
    IF e = "device" THEN ep[e].session_keys.from_device
    ELSE ep[e].session_keys.from_server
RecvState(e) ==
    IF e = "device" THEN ep[e].session_keys.from_server
    ELSE ep[e].session_keys.from_device

\* the payload of e's next write of len bytes: every byte an endpoint writes
\* is different from the ones it wrote before; a buffer of more than 65535
\* bytes is kept as one block of that width
PayloadBase(e) == IF e = "device" THEN 0 ELSE 100
RECURSIVE BytesOf(_)
BytesOf(recs) ==
    IF recs = <<>> THEN <<>> ELSE Head(recs).data \o BytesOf(Tail(recs))
written(e) == BytesOf(emitted[e])
Payload(e, len) ==
    IF len > U16_MAX THEN << <<"junk", len>> >>
    ELSE [i \in 1..len |-> B(PayloadBase(e) + Len(written(e)) + i)]

\* a send counter that goes round to 0
next_message_number_wraps(next_send_n) ==
    [crash |-> FALSE, ret |-> next_send_n,
     next_send_n |-> (next_send_n + 1) % (U16_MAX + 1)]

\* ProtocolState::next_message_number; at u16::max_value() it calls itself
\* without end and the process dies
next_message_number(next_send_n) ==
    IF next_send_n = U16_MAX
    THEN [crash |-> TRUE, ret |-> next_send_n, next_send_n |-> next_send_n]
    ELSE [crash |-> FALSE, ret |-> next_send_n, next_send_n |-> next_send_n + 1]

\* a write that returns at once when the buffer is empty
WriteMessageUnlessEmpty(e, buf, nmn, out) ==
    IF buf = <<>>
    THEN /\ ep' = [ep EXCEPT ![e].writes = @ + 1]
         /\ ret' = [ret EXCEPT ![e] = Returned(e, "write", "none", NoMessage, 0)]
         /\ UNCHANGED <<net, emitted>>
    ELSE /\ ep' = [ep EXCEPT ![e].next_send_n = nmn.next_send_n,
                             ![e].writes = @ + 1]
         /\ net' = NetAfter(e, Source(e), out)
         /\ emitted' = EmittedAfter(e, out, buf)
         /\ ret' = [ret EXCEPT ![e] =
                      Returned(e, "write", IF ep[e].open THEN "none" ELSE "Io",
                               NoMessage, IF ep[e].open THEN Len(buf) ELSE 0)]

\* general_write after next_message_number: send::message
\* a write on a socket that was shut down fails with the io::Error of the
\* socket
WriteMessage(e, buf, nmn, out) ==
    /\ ep' = [ep EXCEPT ![e].next_send_n = nmn.next_send_n, ![e].writes = @ + 1]
    /\ net' = NetAfter(e, Source(e), out)
    /\ emitted' = EmittedAfter(e, out, buf)
    /\ ret' = [ret EXCEPT ![e] =
                 Returned(e, "write", IF ep[e].open THEN "none" ELSE "Io",
                          NoMessage, IF ep[e].open THEN Len(buf) ELSE 0)]

\* general_write taking the message number before it looks at the length
general_write_numbers_first(e, buf, nmn) ==
    IF nmn.crash
    THEN /\ ep' = [ep EXCEPT ![e].pc = "crashed", ![e].open = FALSE]
         /\ ret' = [ret EXCEPT ![e] =
                      Returned(e, "write", "panic", NoMessage, 0)]
         /\ UNCHANGED <<net, emitted>>
    ELSE IF WidthOf(buf) > U16_MAX
    THEN /\ ep' = [ep EXCEPT ![e].writes = @ + 1,
                             ![e].next_send_n = nmn.next_send_n]
         /\ ret' = [ret EXCEPT ![e] =
                      Returned(e, "write", "InvalidData", NoMessage, 0)]
         /\ UNCHANGED <<net, emitted>>
    ELSE \E out \in {message(buf, SendState(e), nmn.ret)} :
            WriteMessage(e, buf, nmn, out)

general_write(e, buf, nmn) ==
    IF WidthOf(buf) > U16_MAX
    THEN /\ ep' = [ep EXCEPT ![e].writes = @ + 1]
         /\ ret' = [ret EXCEPT ![e] =
                      Returned(e, "write", "InvalidData", NoMessage, 0)]
         /\ UNCHANGED <<net, emitted>>
    ELSE IF nmn.crash
    THEN /\ ep' = [ep EXCEPT ![e].pc = "crashed", ![e].open = FALSE]
         /\ ret' = [ret EXCEPT ![e] =
                      Returned(e, "write", "panic", NoMessage, 0)]
         /\ UNCHANGED <<net, emitted>>
    ELSE \E out \in {message(buf, SendState(e), nmn.ret)} :
            WriteMessage(e, buf, nmn, out)

\* a write that takes the number after the next one
WriteNumberAhead(e, len) ==
    /\ ep[e].pc = "ready"
    /\ ep["device"].writes + ep["server"].writes < MaxWrites
    /\ \E buf \in {Payload(e, len)},
          nmn \in {next_message_number(ep[e].next_send_n + 1)} :
          general_write(e, buf, nmn)
    /\ UNCHANGED <<rxlog, decoded, delivered, tampered>>
    /\ UNCHANGED other

\* impl io::Write for Client and for Server
Write(e, len) ==
    /\ ep[e].pc = "ready"
    /\ ep["device"].writes + ep["server"].writes < MaxWrites
    /\ \E buf \in {Payload(e, len)},
          nmn \in {next_message_number(ep[e].next_send_n)} :
          general_write(e, buf, nmn)
    /\ UNCHANGED <<rxlog, decoded, delivered, tampered>>
    /\ UNCHANGED other

\* general_read keeping only the last payload
general_read_replace(buf, v) == v

\* buf.append(&mut v) in general_read
general_read_append(buf, v) == buf \o v

\* the copy loop of read(): up to buf.len() bytes from the head of read_buff
read_drain(read_buff, buf_len) ==
    [out |-> SubSeq(read_buff, 1,
                    IF buf_len > Len(read_buff) THEN Len(read_buff) ELSE buf_len),
     read_buff |-> SubSeq(read_buff,
                    (IF buf_len > Len(read_buff) THEN Len(read_buff) ELSE buf_len) + 1,
                    Len(read_buff))]

\* what the first three bytes of a stream that is out of step may read as
WithoutGaps(s) == SelectSeq(s, LAMBDA t : ~IsGap(t))
HeaderIsCleanOf(s) ==
    s = <<>> \/ (Len(s) >= 3 /\ AllBytes(SubSeq(s, 1, 3)))
HeaderIsClean(s) ==
    IF FirstGap(s) = 0 THEN HeaderIsCleanOf(s) ELSE HeaderIsCleanOf(WithoutGaps(s))
Guesses(e) ==
    IF HeaderIsClean(Source(e)) THEN {NoGuess}
    ELSE {[opcode |-> o, number |-> n] :
            o \in {ERROR, MESSAGE, 5, STOP},
            n \in {ep[e].next_recv_n, ep[e].next_recv_n + 1}}

\* what a read on e's socket sees: the stream; after e shut its own socket
\* down, the stream or end of file
Seen(e) == IF ep[e].open THEN {Source(e)} ELSE {Source(e), <<>>}

\* a read that returns Ok without counting the record
ReadCopyUncounted(e, rest, j, d, m) ==
    /\ net' = NetAfter(e, rest, <<>>)
    /\ ep' = [ep EXCEPT ![e].read_buff = d.read_buff, ![e].out_of_step = @ + j]
    /\ delivered' = [delivered EXCEPT ![e] = @ \o d.out]
    /\ ret' = [ret EXCEPT ![e] = Returned(e, "read", "none", m, Len(d.out))]
    /\ UNCHANGED emitted

\* read() after general_read returned Ok: the copy loop
ReadCopy(e, rest, j, d, m) ==
    /\ net' = NetAfter(e, rest, <<>>)
    /\ ep' = [ep EXCEPT ![e].next_recv_n = @ + 1, ![e].read_buff = d.read_buff,
                        ![e].out_of_step = @ + j]
    /\ delivered' = [delivered EXCEPT ![e] = @ \o d.out]
    /\ ret' = [ret EXCEPT ![e] = Returned(e, "read", "none", m, Len(d.out))]
    /\ UNCHANGED emitted

\* the panic of next_message_number, or of the unwrap in send_error when the
\* stream had been shut down before
ReadPanic(e, rest, j, m) ==
    /\ net' = NetAfter(e, rest, <<>>)
    /\ ep' = [ep EXCEPT ![e].pc = "crashed", ![e].open = FALSE,
                        ![e].out_of_step = @ + j]
    /\ ret' = [ret EXCEPT ![e] = Returned(e, "read", "panic", m, 0)]
    /\ UNCHANGED <<emitted, delivered>>

\* check_recv_number failing without a word to the peer
ReadWrongNumberQuiet(e, rest, j, nmn, m) ==
    /\ net' = NetAfter(e, rest, <<>>)
    /\ ep' = [ep EXCEPT ![e].out_of_step = @ + j]
    /\ ret' = [ret EXCEPT ![e] = Returned(e, "read", "BadMessageN", m, 0)]
    /\ UNCHANGED <<emitted, delivered>>

\* check_recv_number failing: send_error with the next send number
ReadWrongNumber(e, rest, j, nmn, m) ==
    IF nmn.crash
    THEN ReadPanic(e, rest, j, m)
    ELSE \/ /\ net' = NetAfter(e, rest, error(nmn.ret))
            /\ emitted' = EmittedAfter(e, error(nmn.ret), <<>>)
            /\ ep' = [ep EXCEPT ![e].next_send_n = nmn.next_send_n,
                                ![e].open = FALSE, ![e].out_of_step = @ + j]
            /\ ret' = [ret EXCEPT ![e] =
                         Returned(e, "read", "BadMessageN", m, 0)]
            /\ UNCHANGED delivered
         \/ /\ ~ep[e].open
            /\ ReadPanic(e, rest, j, m)

\* general_read giving the same io::Error for every error of receive::general
general_read_one_error(e, buf_len, rest, j, m) ==
    /\ decoded' = IF m.ok
                  THEN [decoded EXCEPT ![e] = Append(@,
                           Rec(m.opcode, m.number,
                               IF m.content[1] = "Message" THEN m.content[2]
                               ELSE <<>>))]
                  ELSE decoded
    /\ IF ~m.ok
       THEN /\ net' = NetAfter(e, rest, <<>>)
            /\ ep' = [ep EXCEPT ![e].out_of_step = @ + j]
            /\ ret' = [ret EXCEPT ![e] =
                         Returned(e, "read",
                                  "Receiving", m, 0)]
            /\ UNCHANGED <<emitted, delivered>>
       ELSE IF ep[e].next_recv_n # m.number \/ ep[e].next_recv_n = U16_MAX
       THEN \E nmn \in {next_message_number(ep[e].next_send_n)} :
               ReadWrongNumber(e, rest, j, nmn, m)
       ELSE \E d \in {read_drain(IF m.content[1] = "Message"
                                 THEN general_read_append(ep[e].read_buff,
                                                          m.content[2])
                                 ELSE ep[e].read_buff,
                                 buf_len)} :
               ReadCopy(e, rest, j, d, m)

\* general_read counting the record receive::general failed on
general_read_counts_failure(e, buf_len, rest, j, m) ==
    /\ decoded' = IF m.ok
                  THEN [decoded EXCEPT ![e] = Append(@,
                           Rec(m.opcode, m.number,
                               IF m.content[1] = "Message" THEN m.content[2]
                               ELSE <<>>))]
                  ELSE decoded
    /\ IF ~m.ok
       THEN /\ net' = NetAfter(e, rest, <<>>)
            /\ ep' = [ep EXCEPT ![e].out_of_step = @ + j,
                                ![e].next_recv_n = @ + 1]
            /\ ret' = [ret EXCEPT ![e] =
                         Returned(e, "read",
                                  IF m.err = "Read" THEN "WouldBlock"
                                  ELSE "Receiving", m, 0)]
            /\ UNCHANGED <<emitted, delivered>>
       ELSE IF ep[e].next_recv_n # m.number \/ ep[e].next_recv_n = U16_MAX
       THEN \E nmn \in {next_message_number(ep[e].next_send_n)} :
               ReadWrongNumber(e, rest, j, nmn, m)
       ELSE \E d \in {read_drain(IF m.content[1] = "Message"
                                 THEN general_read_append(ep[e].read_buff,
                                                          m.content[2])
                                 ELSE ep[e].read_buff,
                                 buf_len)} :
               ReadCopy(e, rest, j, d, m)

\* general_read on the result m of receive::general, then the copy loop
general_read(e, buf_len, rest, j, m) ==
    /\ decoded' = IF m.ok
                  THEN [decoded EXCEPT ![e] = Append(@,
                           Rec(m.opcode, m.number,
                               IF m.content[1] = "Message" THEN m.content[2]
                               ELSE <<>>))]
                  ELSE decoded
    /\ IF ~m.ok
       THEN /\ net' = NetAfter(e, rest, <<>>)
            /\ ep' = [ep EXCEPT ![e].out_of_step = @ + j]
            /\ ret' = [ret EXCEPT ![e] =
                         Returned(e, "read",
                                  IF m.err = "Read" THEN "WouldBlock"
                                  ELSE "Receiving", m, 0)]
            /\ UNCHANGED <<emitted, delivered>>
       ELSE IF ep[e].next_recv_n # m.number \/ ep[e].next_recv_n = U16_MAX
       THEN \E nmn \in {next_message_number(ep[e].next_send_n)} :
               ReadWrongNumber(e, rest, j, nmn, m)
       ELSE \E d \in {read_drain(IF m.content[1] = "Message"
                                 THEN general_read_append(ep[e].read_buff,
                                                          m.content[2])
                                 ELSE ep[e].read_buff,
                                 buf_len)} :
               ReadCopy(e, rest, j, d, m)

ReadSeen(e, buf_len, seen, j, m) ==
    general_read(e, buf_len, IF seen = <<>> THEN Source(e) ELSE m.rest, j, m)

\* impl io::Read for Client and for Server
Read(e, buf_len, g, seen) ==
    /\ ep[e].pc = "ready"
    /\ CanRead(e)
    /\ g = NoGuess \/ ep[e].out_of_step < MaxOutOfStep
    /\ \E m \in {general(seen, RecvState(e), g)} :
          ReadSeen(e, buf_len, seen, IF g = NoGuess THEN 0 ELSE 1, m)
    /\ UNCHANGED <<rxlog, tampered>>
    /\ UNCHANGED other

\* send_stop with the next send number, then the transport is closed whether
\* or not the record was written; the endpoint is CLOSED
send_stop(e, nmn, out) ==
    /\ net' = NetAfter(e, Source(e), out)
    /\ emitted' = EmittedAfter(e, out, <<>>)
    /\ ep' = [ep EXCEPT ![e].pc = "closed", ![e].open = FALSE,
                        ![e].next_send_n = nmn.next_send_n]
    /\ ret' = [ret EXCEPT ![e] = Returned(e, "close", "none", NoMessage, 0)]

\* close() on an endpoint that holds a session
Close(e) ==
    /\ ep[e].pc = "ready"
    /\ ep[e].next_send_n < U16_MAX
    /\ \E nmn \in {next_message_number(ep[e].next_send_n)} :
          \E out \in {stop(SendState(e), nmn.ret)} : send_stop(e, nmn, out)
    /\ UNCHANGED <<rxlog, decoded, delivered, tampered>>
    /\ UNCHANGED other

\* ------------------------------------------------------------- the network
\* what an adversary on the wire, who holds OtherLongSk and OtherEphSk, can
\* put in the place of a token of the same width; the last case of an AEAD
\* block is a sender that encrypts another challenge under the right keys
Replacements(t) ==
    CASE t[1] = "b" -> {B(v) : v \in 0..7}
      [] t[1] = "pk" -> {PkOf(OtherEphSk), PkOf(OtherLongSk)}
      [] t[1] = "id" -> {id_of_pk(PkOf(sk)) :
                            sk \in {DeviceLongSk, ServerLongSk, OtherLongSk}}
      [] t[1] = "chal" -> { <<"chal", OtherChallenge>> }
      [] t[1] = "tag" -> { <<"tag", key_exchange(PkOf(DeviceEphSk), OtherLongSk),
                             t[3], t[4]>>,
                           <<"junk", AUTH_TAG_BYTES>> }
      [] t[1] = "aead" -> { <<"junk", TokWidth(t)>> } \cup
                          (IF Len(t[3]) = 1 /\ t[3][1][1] = "chal"
                           THEN { <<"aead", t[2], << <<"chal", OtherChallenge>> >>,
                                    t[4]>> }
                           ELSE {})
      [] OTHER -> {}

\* the longest record is 7 tokens: the adversary changes the record at the
\* head of the stream, at any time before it is read
HeadTokens == 7

Tamper(e, i, t) ==
    /\ tampered < MaxTamper
    /\ i <= HeadTokens
    /\ t # net[e][i]
    /\ net' = [net EXCEPT ![e][i] = t]
    /\ tampered' = tampered + 1
    /\ UNCHANGED <<ep, emitted, rxlog, decoded, delivered, ret>>
    /\ UNCHANGED other

\* the party that holds OtherLongSk puts its own key id and its own tag over
\* the same public key and challenge on a SERVER_FIRST in flight; the device's
\* ephemeral key it needs for the tag went over the wire in DEVICE_FIRST
Reauthenticate ==
    /\ tampered < MaxTamper
    /\ Len(net["server"]) >= 7
    /\ net["server"][1] = B(SERVER_FIRST)
    /\ net["server"][4][1] = "id"
    /\ net["server"][5][1] = "tag"
    /\ net' = [net EXCEPT
                 !["server"][4] = id_of_pk(PkOf(OtherLongSk)),
                 !["server"][5] =
                    plain_auth_tag(
                       NewState(key_exchange(PkOf(DeviceEphSk), OtherLongSk),
                                key_exchange(PkOf(DeviceEphSk), OtherLongSk)),
                       SubSeq(net["server"], 6, 7), 0)]
    /\ tampered' = tampered + 1
    /\ UNCHANGED <<ep, emitted, rxlog, decoded, delivered, ret>>
    /\ UNCHANGED other

Next ==
    \/ ClientStart
    \/ ClientServerFirst
    \/ ServerDeviceFirst
    \/ ServerDeviceSecond
    \/ \E e \in Endpoints, len \in 0..MaxLen : Write(e, len)
    \/ \E e \in Endpoints, buf_len \in 0..MaxBuf :
          \E g \in Guesses(e), seen \in Seen(e) : Read(e, buf_len, g, seen)
    \/ \E e \in Endpoints : \E i \in 1..Len(net[e]) :
          \E t \in Replacements(net[e][i]) : Tamper(e, i, t)
    \/ Reauthenticate

Spec == Init /\ [][Next]_vars

\* ------------------------------------------- honest peers, honest transport
\* both endpoints trust each other's long-term key and nothing is replaced in
\* flight; start and do_key_exchange run to their return, so every step of
\* the key exchange that can be taken is taken
InitHonest ==
    /\ ep = [e \in Endpoints |->
               InitEndpoint(e, {PkOf(LongSk(Peer(e))), PkOf(OtherLongSk)})]
    /\ net = [e \in Endpoints |-> <<>>]
    /\ emitted = [e \in Endpoints |-> <<>>]
    /\ rxlog = [e \in Endpoints |-> <<>>]
    /\ decoded = [e \in Endpoints |-> <<>>]
    /\ delivered = [e \in Endpoints |-> <<>>]
    /\ tampered = 0
    /\ ret = [e \in Endpoints |-> NoCall]
    /\ other = NoOther

NextHonest ==
    \/ ClientStart
    \/ ClientServerFirst
    \/ ServerDeviceFirst
    \/ ServerDeviceSecond
    \/ \E e \in Endpoints, len \in 0..MaxLen : Write(e, len)
    \/ \E e \in Endpoints, buf_len \in 0..MaxBuf :
          \E g \in Guesses(e), seen \in Seen(e) : Read(e, buf_len, g, seen)

HonestSpec ==
    /\ InitHonest
    /\ [][NextHonest]_vars
    /\ WF_vars(ClientStart)
    /\ WF_vars(ClientServerFirst)
    /\ WF_vars(ServerDeviceFirst)
    /\ WF_vars(ServerDeviceSecond)

\* ------------------------------------------------------- a long session
\* the endpoints of an honest key exchange after so many writes and reads,
\* every record read, that each of them has one number left to send;
\* emitted, decoded and delivered start again from this state
LateCounters == {U16_MAX - 1}

LateEndpoint(e, next_send_n, next_recv_n) ==
    [InitEndpoint(e, {PkOf(LongSk(Peer(e)))}) EXCEPT
        !.pc = "ready",
        !.session_keys = server_first_keys(ServerLongSk, ServerEphSk,
                                           PkOf(DeviceEphSk), PkOf(DeviceLongSk)),
        !.next_send_n = next_send_n,
        !.next_recv_n = next_recv_n]

InitLate ==
    /\ \E d \in LateCounters, s \in LateCounters :
          ep = [e \in Endpoints |->
                  LateEndpoint(e, IF e = "device" THEN d ELSE s,
                               IF e = "device" THEN s ELSE d)]
    /\ net = [e \in Endpoints |-> <<>>]
    /\ emitted = [e \in Endpoints |-> <<>>]
    /\ rxlog = [e \in Endpoints |-> <<>>]
    /\ decoded = [e \in Endpoints |-> <<>>]
    /\ delivered = [e \in Endpoints |-> <<>>]
    /\ tampered = 0
    /\ ret = [e \in Endpoints |-> NoCall]
    /\ other = NoOther

\* the adversary on the wire sends the records e wrote back to e
Reflect(e) ==
    /\ tampered < MaxTamper
    /\ net[e] # <<>>
    /\ net[Peer(e)] = <<>>
    /\ net' = [net EXCEPT ![Peer(e)] = net[e], ![e] = <<>>]
    /\ tampered' = tampered + 1
    /\ UNCHANGED <<ep, emitted, rxlog, decoded, delivered, ret>>
    /\ UNCHANGED other

\* the buffers the application writes: every short length, and one byte
\* more than a record holds
WriteLengths == 0..MaxLen \cup {U16_MAX + 1}

NextLate ==
    \/ \E e \in Endpoints, len \in WriteLengths : Write(e, len)
    \/ \E e \in Endpoints, buf_len \in 0..MaxBuf :
          \E g \in Guesses(e), seen \in Seen(e) : Read(e, buf_len, g, seen)
    \/ \E e \in Endpoints : \E i \in 1..Len(net[e]) :
          \E t \in Replacements(net[e][i]) : Tamper(e, i, t)
    \/ \E e \in Endpoints : Reflect(e)

LateSpec == InitLate /\ [][NextLate]_vars

\* ------------------------------------------------ sessions that are closed
\* the endpoints as the application may set them up, a transport that changes
\* nothing, and close() on either side at any time after the key exchange
NextClosing ==
    \/ ClientStart
    \/ ClientServerFirst
    \/ ServerDeviceFirst
    \/ ServerDeviceSecond
    \/ \E e \in Endpoints, len \in 0..MaxLen : Write(e, len)
    \/ \E e \in Endpoints, buf_len \in 0..MaxBuf :
          \E g \in Guesses(e), seen \in Seen(e) : Read(e, buf_len, g, seen)
    \/ \E e \in Endpoints : Close(e)

ClosingSpec == Init /\ [][NextClosing]_vars

\* ------------------------------------- a session over a transport in time
\* the endpoints as start and do_key_exchange return them after an honest key
\* exchange; the transport delivers what is written in segments, a reader
\* may have set a read timeout, and the adversary on the wire may send a
\* record once more
InitStream ==
    /\ ep = [e \in Endpoints |->
               LateEndpoint(e, IF e = "device" THEN 2 ELSE 1,
                            IF e = "device" THEN 1 ELSE 2)]
    /\ net = [e \in Endpoints |-> <<>>]
    /\ emitted = [e \in Endpoints |-> <<>>]
    /\ rxlog = [e \in Endpoints |-> <<>>]
    /\ decoded = [e \in Endpoints |-> <<>>]
    /\ delivered = [e \in Endpoints |-> <<>>]
    /\ tampered = 0
    /\ ret = [e \in Endpoints |-> NoCall]
    /\ other = NoOther

\* Client::blocking_off, Server::blocking_off: set_read_timeout(Some(..)),
\* called before the first read or write
blocking_off(e) ==
    /\ ep[e].pc = "ready"
    /\ ~ep[e].timeout
    /\ ret[e].call = "none"
    /\ ep' = [ep EXCEPT ![e].timeout = TRUE]
    /\ UNCHANGED <<net, emitted, rxlog, decoded, delivered, tampered, ret>>
    /\ UNCHANGED other

\* the bytes of net[e] from token i on arrive later than those before them:
\* in the next segment, or after the reader's timeout has run out
Delay(e, i, kind) ==
    /\ tampered < MaxTamper
    /\ FirstGap(net[e]) = 0
    /\ i <= HeadTokens + 1
    /\ kind = "late" => ep[Peer(e)].timeout /\ ep[Peer(e)].open
    /\ kind = "split" => i >= 2 /\ i <= Len(net[e])
    /\ net' = [net EXCEPT ![e] = SubSeq(@, 1, i - 1) \o << <<kind>> >>
                                    \o SubSeq(@, i, Len(@))]
    /\ tampered' = tampered + 1
    /\ UNCHANGED <<ep, emitted, rxlog, decoded, delivered, ret>>
    /\ UNCHANGED other

\* the bytes that were late have arrived
Arrive(e) ==
    /\ net[e] # <<>>
    /\ net[e][1][1] = "late"
    /\ net' = [net EXCEPT ![e] = Tail(@)]
    /\ UNCHANGED <<ep, emitted, rxlog, decoded, delivered, tampered, ret>>
    /\ UNCHANGED other

\* the adversary on the wire sends the i-th record e wrote, a DATA record,
\* once more
Replay(e, i) ==
    /\ tampered < MaxTamper
    /\ emitted[e][i].opcode = MESSAGE
    /\ net' = [net EXCEPT ![e] = @ \o message(emitted[e][i].data, SendState(e),
                                               emitted[e][i].number)]
    /\ tampered' = tampered + 1
    /\ UNCHANGED <<ep, emitted, rxlog, decoded, delivered, ret>>
    /\ UNCHANGED other

NextStream ==
    \/ \E e \in Endpoints, len \in 0..MaxLen : Write(e, len)
    \/ \E e \in Endpoints, buf_len \in 0..MaxBuf :
          \E g \in Guesses(e), seen \in Seen(e) : Read(e, buf_len, g, seen)
    \/ \E e \in Endpoints : blocking_off(e)
    \/ \E e \in Endpoints : \E i \in 1..(Len(net[e]) + 1) :
          \E kind \in {"split", "late"} : Delay(e, i, kind)
    \/ \E e \in Endpoints : Arrive(e)
    \/ \E e \in Endpoints : \E i \in 1..Len(emitted[e]) : Replay(e, i)

StreamSpec == InitStream /\ [][NextStream]_vars

\* ------------------------------------------- several connections, lib.rs
\* the echo test: the listener hands every accepted stream to a thread of
\* its own, every client runs in a thread of its own; two of them here
Connections == {1, 2}

\* the keypair the k-th client thread is given, and what gen_keypair and
\* randombytes return in the k-th key exchange
LongSkOf(e, k) == IF e = "server" \/ k = 1 THEN LongSk(e) ELSE "ld2"
EphSkOf(e, k) ==
    IF k = 1 THEN EphSk(e) ELSE IF e = "device" THEN "ed2" ELSE "es2"
ChallengeOf(k) == IF k = 1 THEN ServerChallenge ELSE "r3"

\* the map the test hands to every thread: the server's key and every
\* client's
AllTrusted ==
    {PkOf(ServerLongSk)} \cup {PkOf(LongSkOf("device", k)) : k \in Connections}

\* a server that keeps one ephemeral keypair and one challenge for every
\* connection
ConnectionReused(k) ==
    [e \in Endpoints |->
       [InitEndpoint(e, AllTrusted) EXCEPT
          !.long_sk = LongSkOf(e, k),
          !.eph_sk = IF e = "server" THEN EphSkOf(e, 1) ELSE EphSkOf(e, k),
          !.fresh = ChallengeOf(1)]]

\* the endpoints of the k-th connection before its key exchange
Connection(k) ==
    [e \in Endpoints |->
       [InitEndpoint(e, AllTrusted) EXCEPT
          !.long_sk = LongSkOf(e, k),
          !.eph_sk = EphSkOf(e, k),
          !.fresh = ChallengeOf(k)]]

\* a connection as the variables hold it
ThisSession ==
    [ep |-> ep, net |-> net, emitted |-> emitted, rxlog |-> rxlog,
     decoded |-> decoded, delivered |-> delivered, tampered |-> tampered,
     ret |-> ret]
NewSession(k) ==
    [ep |-> Connection(k),
     net |-> [e \in Endpoints |-> <<>>],
     emitted |-> [e \in Endpoints |-> <<>>],
     rxlog |-> [e \in Endpoints |-> <<>>],
     decoded |-> [e \in Endpoints |-> <<>>],
     delivered |-> [e \in Endpoints |-> <<>>],
     tampered |-> 0,
     ret |-> [e \in Endpoints |-> NoCall]]

InitSessions ==
    /\ ep = NewSession(1).ep
    /\ net = NewSession(1).net
    /\ emitted = NewSession(1).emitted
    /\ rxlog = NewSession(1).rxlog
    /\ decoded = NewSession(1).decoded
    /\ delivered = NewSession(1).delivered
    /\ tampered = NewSession(1).tampered
    /\ ret = NewSession(1).ret
    /\ other = [now |-> 1, parked |-> <<NewSession(2)>>]

\* the threads of one connection carrying a counter over to the other's
SwitchSharing ==
    /\ other.parked # <<>>
    /\ ep' = [other.parked[1].ep EXCEPT
                !["server"].next_recv_n = ep["server"].next_recv_n]
    /\ net' = other.parked[1].net
    /\ emitted' = other.parked[1].emitted
    /\ rxlog' = other.parked[1].rxlog
    /\ decoded' = other.parked[1].decoded
    /\ delivered' = other.parked[1].delivered
    /\ tampered' = other.parked[1].tampered
    /\ ret' = other.parked[1].ret
    /\ other' = [now |-> 3 - other.now, parked |-> <<ThisSession>>]

\* the scheduler leaves the threads of one connection and runs the other's
Switch ==
    /\ other.parked # <<>>
    /\ ep' = other.parked[1].ep
    /\ net' = other.parked[1].net
    /\ emitted' = other.parked[1].emitted
    /\ rxlog' = other.parked[1].rxlog
    /\ decoded' = other.parked[1].decoded
    /\ delivered' = other.parked[1].delivered
    /\ tampered' = other.parked[1].tampered
    /\ ret' = other.parked[1].ret
    /\ other' = [now |-> 3 - other.now, parked |-> <<ThisSession>>]

\* client_thread: client.write(&client_msg)
ClientWrite(len) ==
    /\ ep["device"].writes = 0
    /\ Write("device", len)

\* server_handle_connection: server.read(&mut buf) on a blocking socket
ServerRead ==
    /\ Source("server") # <<>>
    /\ ep["server"].writes = 0
    /\ Read("server", MaxLen, NoGuess, Source("server"))

\* server_handle_connection: server.write(&buf[0..n]) when n > 0
ServerEcho ==
    /\ ep["server"].pc = "ready"
    /\ ep["server"].writes = 0
    /\ ret["server"].call = "read"
    /\ ret["server"].ok
    /\ ret["server"].n > 0
    /\ \E buf \in {SubSeq(delivered["server"],
                          Len(delivered["server"]) - ret["server"].n + 1,
                          Len(delivered["server"]))},
          nmn \in {next_message_number(ep["server"].next_send_n)} :
          general_write("server", buf, nmn)
    /\ UNCHANGED <<rxlog, decoded, delivered, tampered, other>>

\* client_thread: client.read(&mut recv_buf) on a blocking socket
ClientRead ==
    /\ ret["device"].call = "write"
    /\ Source("device") # <<>>
    /\ Read("device", MaxLen, NoGuess, Source("device"))

SessionStep ==
    \/ ClientStart
    \/ ClientServerFirst
    \/ ServerDeviceFirst
    \/ ServerDeviceSecond
    \/ \E len \in 1..MaxLen : ClientWrite(len)
    \/ ServerRead
    \/ ServerEcho
    \/ ClientRead

NextSessions ==
    \/ SessionStep
    \/ Switch

\* the threads of connection k take a step
Thread(k) == other.now = k /\ SessionStep

\* every thread is scheduled again and again and runs when it can
SessionsSpec ==
    /\ InitSessions
    /\ [][NextSessions]_vars
    /\ WF_vars(Switch)
    /\ \A k \in Connections : SF_vars(Thread(k))

\* records that were written on one connection, copied to the other
MaxReplay == 2

\* the adversary writes what is in flight from the first connection's client
\* to the second connection's server
CrossReplay ==
    /\ other.parked # <<>>
    /\ other.now = 2
    /\ tampered < MaxReplay
    /\ other.parked[1].net["device"] # <<>>
    /\ net' = [net EXCEPT !["device"] = @ \o other.parked[1].net["device"]]
    /\ tampered' = tampered + 1
    /\ UNCHANGED <<ep, emitted, rxlog, decoded, delivered, ret, other>>

\* the key exchanges of the two connections and the adversary
NextReplayed ==
    \/ ClientStart
    \/ ClientServerFirst
    \/ ServerDeviceFirst
    \/ ServerDeviceSecond
    \/ Switch
    \/ CrossReplay

ReplayedSpec == InitSessions /\ [][NextReplayed]_vars

\* --------------------------------------------------------------- properties
IsPrefix(s, t) == Len(s) <= Len(t) /\ s = SubSeq(t, 1, Len(s))

BothReady == ep["device"].pc = "ready" /\ ep["server"].pc = "ready"

\* e's key exchange ended without a session: it returned the error of this
\* stage and kind, or it panicked in the shutdown after send_error
Refused(e, stage, kind) ==
    \/ ep[e].pc = "failed" /\ ep[e].err = <<stage, kind>>
    \/ ep[e].pc = "crashed"

\* the records e wrote after its records of the key exchange
HandshakeRecords(e) == IF e = "device" THEN 2 ELSE 1
DataRecords(e) ==
    SubSeq(emitted[e], HandshakeRecords(e) + 1, Len(emitted[e]))

Emits(e, opcode) == \E i \in 1..Len(emitted[e]) : emitted[e][i].opcode = opcode

\* what the peer's receive::general makes of the record e's write(p) produces
RoundTripOf(e, p, n) ==
    general(message(p, SendState(e), n), RecvState(Peer(e)), NoGuess)

RoundTripNumbers == {1, 2, U16_MAX - 1}
LengthSamples == {0, 1, 255, 256, U16_MAX}

\* C1: after a completed handshake a DATA record made by write(p) under the
\* sender's direction state is decoded by the peer under the same direction's
\* state to exactly p with the sender's message number, in both directions;
\* the length field holds every length up to 65535; and on a transport that
\* changes nothing the records the peer decoded are, in order, the records
\* the sender wrote
DataRoundTrip ==
    /\ \A l \in LengthSamples : two_bytes_to_u16(u16_to_bytes(l)) = l
    /\ BothReady =>
          \A e \in Endpoints, len \in 0..MaxLen, n \in RoundTripNumbers :
             SendState(e) = RecvState(Peer(e)) =>
             \E p \in {Payload(e, len)} : \E r \in {RoundTripOf(e, p, n)} :
                /\ r.ok
                /\ r.number = n
                /\ r.content = <<"Message", p>>
                /\ r.rest = <<>>
    /\ tampered = 0 =>
          \A e \in Endpoints : IsPrefix(decoded[Peer(e)], DataRecords(e))

\* each endpoint has decoded a record with a payload that the other wrote
DataRoundTripSeen ==
    \A e \in Endpoints :
       /\ decoded[e] # <<>>
       /\ decoded[e][1].opcode = MESSAGE
       /\ decoded[e][1].data # <<>>
       /\ decoded[e][1] = DataRecords(Peer(e))[1]

\* C2: on a transport that changes nothing, the bytes the reads of an
\* endpoint returned, in call order, are a prefix of the concatenation of the
\* payloads the peer wrote, and together with the bytes still held for the
\* next read they are all of it once every record has been read
StreamIsPrefix ==
    tampered = 0 =>
       \A e \in Endpoints :
          /\ IsPrefix(delivered[Peer(e)], written(e))
          /\ IsPrefix(delivered[Peer(e)] \o ep[Peer(e)].read_buff, written(e))
          /\ net[e] = <<>> /\ ep[Peer(e)].pc = "ready" =>
                delivered[Peer(e)] \o ep[Peer(e)].read_buff = written(e)

\* two writes of three bytes in all have been read out in full, the second
\* read returning what the first left behind
StreamReadOut ==
    \E e \in Endpoints :
       /\ tampered = 0
       /\ Len(DataRecords(e)) = 2
       /\ Len(DataRecords(e)[1].data) = 2
       /\ Len(written(e)) = 3
       /\ delivered[Peer(e)] = written(e)

\* the device accepted a SERVER_FIRST under the server's long-term key
DeviceAuthenticatedServer ==
    \E i \in 1..Len(rxlog["device"]) :
       /\ rxlog["device"][i].ok
       /\ rxlog["device"][i].content[1] = "ServerFirst"
       /\ rxlog["device"][i].content[4] = PkOf(ServerLongSk)

\* when the device accepted SERVER_FIRST under the server's own long-term key
\* and the key exchange has completed on both sides, the SessionKeys agree
SessionKeysAgreeAuthenticated ==
    BothReady /\ DeviceAuthenticatedServer =>
       ep["device"].session_keys = ep["server"].session_keys

\* C3: when the key exchange has completed on both sides the device's
\* SessionKeys are the server's: the same from_device and from_server states
SessionKeysAgree ==
    BothReady =>
       /\ ep["device"].session_keys = ep["server"].session_keys
       /\ ep["device"].session_keys.from_device # NoState
       /\ ep["device"].session_keys.from_server # NoState

BothReadyWithKeys ==
    /\ BothReady
    /\ ep["server"].session_keys.from_device.enc
          = hash_two_things(key_exchange(PkOf(DeviceEphSk), ServerEphSk), "device")
    /\ ep["device"].session_keys.from_server.enc
          = hash_two_things(key_exchange(PkOf(ServerEphSk), DeviceEphSk), "server")

\* C4: honest endpoints that trust each other, on a transport that delivers
\* every byte in order, both come to hold a session, and neither reports an
\* error
HandshakeCompletes ==
    /\ <>BothReady
    /\ [](\A e \in Endpoints : ep[e].err = NoError /\ ep[e].pc # "failed")

HonestBothReady ==
    /\ BothReady
    /\ tampered = 0
    /\ \A e \in Endpoints : ep[e].err = NoError

\* no record of the data phase has been sent or received by e yet
FreshReady(e) == ep[e].pc = "ready" /\ ep[e].writes = 0 /\ decoded[e] = <<>>

FirstNumber(e) == IF e = "device" THEN 2 ELSE 1

IsFirstMessage(e, i) ==
    /\ emitted[e][i].opcode = MESSAGE
    /\ \A j \in 1..(i - 1) : emitted[e][j].opcode # MESSAGE

\* C5: right after the key exchange the device has next_send_n = 2 and
\* next_recv_n = 1, the server next_send_n = 1 and next_recv_n = 2; the first
\* DATA record is number 2 from the device and 1 from the server, and that
\* is the number the peer expects
CountersAfterHandshake ==
    /\ \A e \in Endpoints :
          FreshReady(e) =>
             /\ ep[e].next_send_n = FirstNumber(e)
             /\ ep[e].next_recv_n = FirstNumber(Peer(e))
    /\ \A e \in Endpoints : \A i \in 1..Len(emitted[e]) :
          IsFirstMessage(e, i) => emitted[e][i].number = FirstNumber(e)
    /\ \A e \in Endpoints :
          FreshReady(e) /\ FreshReady(Peer(e)) =>
             ep[e].next_send_n = ep[Peer(e)].next_recv_n

\* both endpoints hold a fresh session and then each wrote its first record
FirstRecordsWritten ==
    \A e \in Endpoints :
       /\ ep[e].pc = "ready"
       /\ decoded[e] = <<>>
       /\ Len(DataRecords(e)) = 1
       /\ DataRecords(e)[1].opcode = MESSAGE

HandshakeNumber(opcode) == IF opcode = DEVICE_SECOND THEN 1 ELSE 0
HandshakeOpcodes == {DEVICE_FIRST, SERVER_FIRST, DEVICE_SECOND}
HandshakeContents == {"DeviceFirst", "ServerFirst", "DeviceSecond"}

\* C6: DEVICE_FIRST and SERVER_FIRST are sent with message number 0 and
\* DEVICE_SECOND with 1, and the message a receive call of the key exchange
\* returns carries that number; on a transport that changes nothing it is the
\* number of the record the peer wrote
HandshakeNumbersFixed ==
    /\ \A e \in Endpoints : \A i \in 1..Len(emitted[e]) :
          emitted[e][i].opcode \in HandshakeOpcodes =>
             emitted[e][i].number = HandshakeNumber(emitted[e][i].opcode)
    /\ \A e \in Endpoints : \A i \in 1..Len(rxlog[e]) :
          rxlog[e][i].ok /\ rxlog[e][i].content[1] \in HandshakeContents =>
             /\ rxlog[e][i].opcode \in HandshakeOpcodes
             /\ rxlog[e][i].number = HandshakeNumber(rxlog[e][i].opcode)
    /\ tampered = 0 =>
          \A e \in Endpoints : \A i \in 1..Len(rxlog[e]) :
             rxlog[e][i].ok =>
                /\ i <= Len(emitted[Peer(e)])
                /\ rxlog[e][i].opcode = emitted[Peer(e)][i].opcode
                /\ rxlog[e][i].number = emitted[Peer(e)][i].number

\* all three messages of the key exchange have been sent and returned
HandshakeNumbersSeen ==
    /\ Len(rxlog["server"]) = 2
    /\ Len(rxlog["device"]) = 1
    /\ \A e \in Endpoints : \A i \in 1..Len(rxlog[e]) :
          rxlog[e][i].ok /\ rxlog[e][i].content[1] \in HandshakeContents
    /\ Emits("device", DEVICE_SECOND)

CallOpcode(call) ==
    CASE call = "device_first" -> DEVICE_FIRST
      [] call = "server_first" -> SERVER_FIRST
      [] call = "device_second" -> DEVICE_SECOND

\* the header a receive call of the key exchange read has the opcode the call
\* is for and another number than the fixed one
WrongNumber(x) ==
    x.opcode = CallOpcode(x.call) /\ x.number # HandshakeNumber(x.opcode)

\* C7: a message of the key exchange whose header has another number than
\* its fixed one is rejected with BadPacket after the header alone was read,
\* with no key lookup and no cryptographic check, and the endpoint's key
\* exchange fails
WrongNumberRejected ==
    \A e \in Endpoints : \A i \in 1..Len(rxlog[e]) :
       WrongNumber(rxlog[e][i]) =>
          /\ ~rxlog[e][i].ok
          /\ rxlog[e][i].err = "BadPacket"
          /\ rxlog[e][i].consumed = HEADER_BYTES
          /\ ~rxlog[e][i].lookup
          /\ ~rxlog[e][i].crypto
          /\ Refused(e, ep[e].err[1], "BadPacket")

\* the server read a DEVICE_SECOND header with another number than 1
WrongNumberSeen ==
    /\ Len(rxlog["server"]) = 2
    /\ rxlog["server"][2].call = "device_second"
    /\ rxlog["server"][2].opcode = DEVICE_SECOND
    /\ rxlog["server"][2].number # 1
    /\ ep["device"].pc = "ready"

\* the DEVICE_SECOND that answers the server's challenge
ValidDeviceSecond ==
    construct_header(DEVICE_SECOND, 1)
        \o <<authenticated_encryption(ep["server"].session_keys.from_device,
                                      ep["server"].challenge, 1)>>

DeviceSecondRead(x) ==
    /\ x.call = "device_second"
    /\ x.opcode = DEVICE_SECOND
    /\ x.number = 1
    /\ x.consumed = HEADER_BYTES + CHALLENGE_BYTES + AUTH_TAG_BYTES

\* C8: the server holds a session only if the DEVICE_SECOND it received
\* decrypts under from_device with number 1 to the challenge it sent; a
\* DEVICE_SECOND that does not decrypt, or decrypts to something else, gives
\* Crypto and no session
ChallengeAnswered ==
    /\ ep["server"].pc = "ready" =>
          \E i \in 1..Len(rxlog["server"]) :
             /\ DeviceSecondRead(rxlog["server"][i])
             /\ rxlog["server"][i].taken = ValidDeviceSecond
    /\ ep["server"].challenge # <<>> =>
          ep["server"].challenge = << <<"chal", ServerChallenge>> >>
    /\ \A i \in 1..Len(rxlog["server"]) :
          /\ DeviceSecondRead(rxlog["server"][i])
          /\ rxlog["server"][i].taken # ValidDeviceSecond
          => /\ rxlog["server"][i].err = "Crypto"
             /\ Refused("server", "DeviceSecond", "Crypto")

\* the server received, under the right key, another challenge than its own
OtherChallengeRefused ==
    /\ Len(rxlog["server"]) = 2
    /\ DeviceSecondRead(rxlog["server"][2])
    /\ rxlog["server"][2].taken[4]
          = authenticated_encryption(ep["server"].session_keys.from_device,
                                     << <<"chal", OtherChallenge>> >>, 1)
    /\ ep["server"].pc = "failed"

ServerFirstRead(x) ==
    /\ x.call = "server_first"
    /\ x.opcode = SERVER_FIRST
    /\ x.number = 0
    /\ x.consumed = HEADER_BYTES + PUBLIC_KEY_BYTES + CHALLENGE_BYTES
                       + KEY_ID_BYTES + AUTH_TAG_BYTES
    /\ Len(x.taken) = 7

\* the tag of a received SERVER_FIRST is the one over its public key and
\* challenge, number 0, under the key agreed with the trusted long-term key
\* that its id selects
TagVerifies(x) ==
    /\ Trusts(ep["device"].trusted_pks, x.taken[4])
    /\ x.taken[5] =
          plain_auth_tag(
             NewState(key_exchange(find_public_key(x.taken[4],
                                                   ep["device"].trusted_pks),
                                   DeviceEphSk),
                      key_exchange(find_public_key(x.taken[4],
                                                   ep["device"].trusted_pks),
                                   DeviceEphSk)),
             SubSeq(x.taken, 6, 7), 0)

\* C9: the device sends DEVICE_SECOND and holds a session only if the tag of
\* SERVER_FIRST verifies under the key derived from the trusted long-term key
\* its id selects; a SERVER_FIRST with a trusted id whose tag was made with
\* another secret gives Crypto on the device
ServerAuthenticated ==
    /\ ep["device"].pc = "ready" \/ Emits("device", DEVICE_SECOND) =>
          \E i \in 1..Len(rxlog["device"]) :
             ServerFirstRead(rxlog["device"][i]) /\ TagVerifies(rxlog["device"][i])
    /\ \A i \in 1..Len(rxlog["device"]) :
          /\ ServerFirstRead(rxlog["device"][i])
          /\ Trusts(ep["device"].trusted_pks, rxlog["device"][i].taken[4])
          /\ ~TagVerifies(rxlog["device"][i])
          => /\ rxlog["device"][i].err = "Crypto"
             /\ Refused("device", "ServerFirst", "Crypto")
             /\ ~Emits("device", DEVICE_SECOND)

\* the device received a SERVER_FIRST with the server's trusted id and a tag
\* made with another long-term secret
OtherSecretRefused ==
    /\ Len(rxlog["device"]) = 1
    /\ ServerFirstRead(rxlog["device"][1])
    /\ rxlog["device"][1].taken[4] = id_of_pk(PkOf(ServerLongSk))
    /\ Trusts(ep["device"].trusted_pks, rxlog["device"][1].taken[4])
    /\ rxlog["device"][1].taken[5][1] = "tag"
    /\ rxlog["device"][1].taken[5][2] = key_exchange(PkOf(DeviceEphSk), OtherLongSk)
    /\ ep["device"].err = <<"ServerFirst", "Crypto">>

\* C10: a DEVICE_FIRST whose key id is not in the server's trusted map makes
\* the server's key exchange fail with PubKeyId and the server never sends
\* SERVER_FIRST; a SERVER_FIRST whose key id is not in the device's trusted
\* map makes the device's fail with PubKeyId and it never sends DEVICE_SECOND
UnknownIdRefused ==
    /\ \A i \in 1..Len(rxlog["server"]) :
          /\ rxlog["server"][i].call = "device_first"
          /\ rxlog["server"][i].ok
          /\ rxlog["server"][i].content[1] = "DeviceFirst"
          /\ ~Trusts(ep["server"].trusted_pks, rxlog["server"][i].content[3])
          => /\ ep["server"].pc = "failed"
             /\ ep["server"].err = <<"DeviceFirst", "PubKeyId">>
             /\ ~Emits("server", SERVER_FIRST)
    /\ \A i \in 1..Len(rxlog["device"]) :
          /\ ServerFirstRead(rxlog["device"][i])
          /\ ~Trusts(ep["device"].trusted_pks, rxlog["device"][i].taken[4])
          => /\ rxlog["device"][i].err = "PubKeyId"
             /\ Refused("device", "ServerFirst", "PubKeyId")
             /\ ~Emits("device", DEVICE_SECOND)

\* the server was handed a DEVICE_FIRST with the id of a key it does not trust
UnknownIdSeen ==
    /\ Len(rxlog["server"]) = 1
    /\ rxlog["server"][1].ok
    /\ rxlog["server"][1].content[1] = "DeviceFirst"
    /\ rxlog["server"][1].content[3] = id_of_pk(PkOf(DeviceLongSk))
    /\ ~Trusts(ep["server"].trusted_pks, rxlog["server"][1].content[3])
    /\ ep["server"].pc = "failed"

\* ------------------------------------------------------- errors and teardown
Last(s) == s[Len(s)]

\* e's key exchange failed: start / do_key_exchange returned an error, or
\* panicked before it returned
KeyExchangeFailed(e) ==
    ep[e].pc = "failed" \/ (ep[e].pc = "crashed" /\ ret[e].call = "none")

\* C11: whenever the key exchange of an endpoint fails, on any path, the
\* endpoint has written an ERROR record as its last record, has closed the
\* transport, and has returned the error to its caller
FailureSignalled ==
    \A e \in Endpoints :
       KeyExchangeFailed(e) =>
          /\ ep[e].pc = "failed"
          /\ emitted[e] # <<>>
          /\ Last(emitted[e]).opcode = ERROR
          /\ ~ep[e].open

\* C12: an ERROR record returned by a receive call of the key exchange,
\* whatever its number, ends the key exchange without a session and the
\* endpoint reports that the peer sent ERROR
RemoteErrorReported ==
    \A e \in Endpoints : \A i \in 1..Len(rxlog[e]) :
       rxlog[e][i].ok /\ rxlog[e][i].content = <<"Error">> =>
          /\ ep[e].pc = "failed"
          /\ ep[e].err[2] = "RemoteError"

\* a call on e's session that returned Ok in this step
SuccessfulRead(e) == ep'[e].next_recv_n # ep[e].next_recv_n
SuccessfulWrite(e) == ep'[e].writes # ep[e].writes /\ ret'[e].ok
Received(e, opcode) ==
    \E i \in 1..Len(decoded[e]) : decoded[e][i].opcode = opcode

\* C13: the read of an endpoint with a session that receives an ERROR record
\* returns the error RemoteError, and after it no read and no write on the
\* endpoint succeeds
ErrorIsFatal ==
    [][\A e \in Endpoints :
          /\ decoded'[e] # decoded[e] /\ Last(decoded'[e]).opcode = ERROR =>
                ~ret'[e].ok /\ ret'[e].err = "RemoteError"
          /\ ep[e].pc = "ready" /\ Received(e, ERROR) =>
                ~SuccessfulRead(e) /\ ~SuccessfulWrite(e)]_vars

ErrorNumbers == {0, 256, U16_MAX}

\* the four receive functions on a source, with any keys
ReceiveAll(source, keys) ==
    { receive_device_first(source, NoGuess),
      receive_server_first(source, DeviceEphSk, ep["device"].trusted_pks, NoGuess),
      receive_device_second(source, keys, << <<"chal", ServerChallenge>> >>,
                            NoGuess),
      general(source, keys.from_device, NoGuess),
      general(source, keys.from_server, NoGuess) }

\* the header of an ERROR record was read by a receive call of the key
\* exchange
ErrorHeaderRead(x) ==
    /\ Len(x.taken) >= HEADER_BYTES
    /\ AllBytes(SubSeq(x.taken, 1, HEADER_BYTES))
    /\ x.taken[1] = B(ERROR)

\* C14: an ERROR record, three bytes of header and no body, with any 16-bit
\* number is returned as Error with that number by receive_device_first,
\* server_first, device_second and general, whatever the session keys and
\* with no key used, and the bytes after the header are left in the stream
ErrorRecordDecoded ==
    /\ \A n \in ErrorNumbers :
       \A keys \in {NoKeys, ep["server"].session_keys} :
       \A r \in ReceiveAll(error(n) \o <<B(MESSAGE)>>, keys) :
          /\ r.ok
          /\ r.content = <<"Error">>
          /\ r.number = n
          /\ r.rest = <<B(MESSAGE)>>
          /\ ~r.crypto
          /\ ~r.lookup
    /\ \A e \in Endpoints : \A i \in 1..Len(rxlog[e]) :
          ErrorHeaderRead(rxlog[e][i]) =>
             /\ rxlog[e][i].ok
             /\ rxlog[e][i].content = <<"Error">>
             /\ rxlog[e][i].number = two_bytes_to_u16(SubSeq(rxlog[e][i].taken, 2, 3))
             /\ rxlog[e][i].consumed = HEADER_BYTES
             /\ ~rxlog[e][i].crypto

\* the server, waiting for DEVICE_SECOND, was returned the ERROR record with
\* number 1 that the device wrote
ErrorRecordSeen ==
    /\ Len(rxlog["server"]) = 2
    /\ rxlog["server"][2].call = "device_second"
    /\ rxlog["server"][2].ok
    /\ rxlog["server"][2].content = <<"Error">>
    /\ rxlog["server"][2].number = 1
    /\ Emits("device", ERROR)

\* C15: an endpoint that has sent a STOP record, or has received a valid one,
\* is terminal: from then on no read and no write on it succeeds, it writes
\* no record and it accepts none
StopIsTerminal ==
    [][\A e \in Endpoints :
          ep[e].pc = "closed" \/ Received(e, STOP) =>
             /\ ~SuccessfulRead(e)
             /\ ~SuccessfulWrite(e)
             /\ emitted'[e] = emitted[e]
             /\ decoded'[e] = decoded[e]]_vars

\* C16: close() on an endpoint with a session writes a STOP record with the
\* endpoint's next send number under the state of its sending direction and
\* closes the transport; the read of the peer that takes the STOP record
\* reports the end of the stream: an error, or no bytes
CloseSignalsEnd ==
    \A e \in Endpoints :
       /\ ep[e].pc = "closed" =>
             /\ ~ep[e].open
             /\ Last(emitted[e]) = Rec(STOP, ret[e].send_n, <<>>)
             /\ net[e] # <<>> =>
                   SubSeq(net[e], Len(net[e]) - 3, Len(net[e]))
                      = stop(SendState(e), ret[e].send_n)
       /\ ret[e].call = "read" /\ ret[e].got /\ ret[e].opcode = STOP =>
             ~ret[e].ok \/ ret[e].n = 0

StopNumbers == {1, 5000, U16_MAX}

\* what receive::general makes, under the state st, of a record followed by
\* one more byte
GeneralOf(record, st) == general(record \o <<B(MESSAGE)>>, st, NoGuess)

\* C17: a STOP record sent with any number n under a state is returned by
\* receive::general under the same state as Stop with number n; a STOP record
\* whose plaintext is not the constant 0, or whose ciphertext does not verify
\* under the state for the number in its header, is refused with Crypto
StopRoundTrip ==
    /\ \A e \in Endpoints : \A n \in StopNumbers :
          ep[e].session_keys # NoKeys =>
             /\ \E r \in {GeneralOf(stop(SendState(e), n), SendState(e))} :
                   /\ r.ok
                   /\ r.content = <<"Stop">>
                   /\ r.number = n
                   /\ r.rest = <<B(MESSAGE)>>
             /\ \A bad \in
                   { const_size_encrypted(STOP, <<B(1)>>, SendState(e), n),
                     construct_header(STOP, n - 1)
                        \o <<authenticated_encryption(SendState(e),
                                                      <<B(STOP_CONTENTS)>>, n)>>,
                     stop(RecvState(e), n),
                     construct_header(STOP, n)
                        \o << <<"junk", CONST_MSG_LEN + AUTH_TAG_BYTES>> >> } :
                   \E r \in {GeneralOf(bad, SendState(e))} :
                      /\ ~r.ok
                      /\ r.err = "Crypto"
    /\ \A e \in Endpoints : \A i \in 1..Len(decoded[e]) :
          decoded[e][i].opcode = STOP =>
             /\ ep[Peer(e)].pc = "closed"
             /\ decoded[e][i] = Last(emitted[Peer(e)])

\* an endpoint has read the STOP record that the close() of its peer wrote
StopDecoded ==
    \E e \in Endpoints :
       /\ ep[Peer(e)].pc = "closed"
       /\ decoded[e] # <<>>
       /\ Last(decoded[e]).opcode = STOP
       /\ Last(decoded[e]) = Last(emitted[Peer(e)])
       /\ ret[e].ok

\* the records of the data phase
RecordOpcodes == {ERROR, MESSAGE, STOP}

\* e's last call was a read that read the header of a record, with another
\* number than the one e expected
NumberMismatch(e) ==
    /\ ret[e].call = "read"
    /\ ret[e].opcode \in RecordOpcodes
    /\ ret[e].got \/ ret[e].cause \in {"Crypto", "BadPacket"}
    /\ ret[e].number # ret[e].expected

\* what check_recv_number leaves behind when it fails
ErrorSentAndClosed(e) ==
    /\ ~ret[e].ok
    /\ ret[e].err = "BadMessageN"
    /\ ret[e].n = 0
    /\ ep[e].read_buff = ret[e].held
    /\ ep[e].next_recv_n = ret[e].expected
    /\ ~ep[e].open
    /\ ret[e].open =>
          /\ Len(emitted[e]) = ret[e].emits + 1
          /\ Last(emitted[e]) = Rec(ERROR, ret[e].send_n, <<>>)

WithNumber(record, n) ==
    construct_header(record[1][2], n)
       \o SubSeq(record, HEADER_BYTES + 1, Len(record))

\* the number a record was sent with, and the one put in its place
ReplacedNumbers == {<<1, 2>>, <<2, 1>>, <<1, 257>>, <<U16_MAX, 0>>}

\* e's last call was a read of a whole DATA or STOP record whose header
\* carries a number that e did not expect and that e's peer never sent a
\* record of this opcode with
NumberReplaced(e) ==
    /\ ret[e].call = "read"
    /\ ep[e].out_of_step = 0
    /\ ret[e].opcode \in {MESSAGE, STOP}
    /\ ret[e].number # ret[e].expected
    /\ ret[e].cause # "NotEnoughRead"
    /\ \A i \in 1..Len(emitted[Peer(e)]) :
          \/ emitted[Peer(e)][i].opcode # ret[e].opcode
          \/ emitted[Peer(e)][i].number # ret[e].number

CryptoFailureCloses ==
    \A e \in Endpoints :
       ret[e].call = "read" /\ ret[e].cause = "Crypto" /\ ret[e].open =>
          /\ ~ep[e].open
          /\ Len(emitted[e]) = ret[e].emits + 1
          /\ Last(emitted[e]).opcode = ERROR

\* ------------------------------------------------------- the length of DATA
\* a DATA record with the two bytes of its length field replaced by l
WithLength(record, l) ==
    SubSeq(record, 1, HEADER_BYTES) \o u16_to_bytes(l)
       \o SubSeq(record, HEADER_BYTES + 3, Len(record))

AlteredLengths == {0, 1, 2, 256, U16_MAX}

\* the stream e reads starts with a whole DATA record: header, two length
\* bytes, a 16-byte block and one more block
DataAtHead(e) ==
    /\ Len(Source(e)) >= HEADER_BYTES + 4
    /\ AllBytes(SubSeq(Source(e), 1, HEADER_BYTES + 2))
    /\ Source(e)[1] = B(MESSAGE)
    /\ TokWidth(Source(e)[HEADER_BYTES + 3]) = AUTH_TAG_BYTES

\* the tag of the DATA record at the head of e's stream verifies over its
\* length bytes for the number in its header
LengthTagVerifies(e) ==
    verify_auth_tag(RecvState(e), <<Source(e)[HEADER_BYTES + 3]>>,
                    SubSeq(Source(e), HEADER_BYTES + 1, HEADER_BYTES + 2),
                    two_bytes_to_u16(SubSeq(Source(e), 2, 3)))

\* C21: for a DATA record the receiver verifies the tag over the two length
\* bytes, for the number in the header, before the length sizes the read of
\* the ciphertext: a record whose length field was altered is refused with
\* Crypto and everything after the 16 bytes of the tag is left in the stream
LengthVerifiedFirst ==
    /\ \A e \in Endpoints : \A len \in 0..MaxLen : \A l \in AlteredLengths \ {len} :
          ep[e].session_keys # NoKeys =>
             \E record \in {message(Payload(e, len), SendState(e),
                                     ep[e].next_send_n)} :
                \E r \in {GeneralOf(WithLength(record, l), SendState(e))} :
                   /\ ~r.ok
                   /\ r.err = "Crypto"
                   /\ r.rest = SubSeq(record, HEADER_BYTES + 4, Len(record))
                                  \o <<B(MESSAGE)>>
    /\ \A e \in Endpoints :
          ep[e].pc = "ready" /\ DataAtHead(e) /\ ~LengthTagVerifies(e) =>
             \E r \in {general(Source(e), RecvState(e), NoGuess)} :
                /\ ~r.ok
                /\ r.err = "Crypto"
                /\ r.rest = SubSeq(Source(e), HEADER_BYTES + 4, Len(Source(e)))

\* the length field of the DATA record an endpoint is about to read was
\* altered in flight, its tag and ciphertext are the sender's, and
\* receive::general refuses it with the ciphertext unread
AlteredLengthRefused ==
    \E e \in Endpoints :
       /\ ep[e].pc = "ready"
       /\ tampered = 1
       /\ DataAtHead(e)
       /\ \E i \in 1..Len(emitted[Peer(e)]) :
             \E record \in {message(emitted[Peer(e)][i].data, RecvState(e),
                                     emitted[Peer(e)][i].number)} :
                /\ emitted[Peer(e)][i].opcode = MESSAGE
                /\ Source(e) # record
                /\ \E l \in 0..2047 : Source(e) = WithLength(record, l)
                /\ \E r \in {general(Source(e), RecvState(e), NoGuess)} :
                      /\ r.err = "Crypto"
                      /\ r.rest = <<record[Len(record)]>>

\* ------------------------------------------------------ the receive counter
\* next_recv_n of the ProtocolState that start / do_key_exchange returns
PostHandshakeRecv(e) == IF e = "device" THEN 1 ELSE 2

\* check_recv_number run over the records receive::general returned, from the
\* counter value c
RECURSIVE CountAccepted(_, _)
CountAccepted(recs, c) ==
    IF recs = <<>> THEN c
    ELSE CountAccepted(Tail(recs),
                       IF Head(recs).number = c /\ c # U16_MAX THEN c + 1 ELSE c)

\* C22: next_recv_n goes up by exactly 1 for each record that is accepted (it
\* was returned by receive::general and carries the expected number) and is
\* left alone by every record that is refused and every read that fails, so
\* it is the value after the key exchange plus the number of accepted records
RecvCounterCounts ==
    \A e \in Endpoints :
       ep[e].pc = "ready" \/ decoded[e] # <<>> =>
          /\ ep[e].next_recv_n = CountAccepted(decoded[e], PostHandshakeRecv(e))
          /\ ep[e].next_recv_n <= PostHandshakeRecv(e) + Len(decoded[e])
          /\ ret[e].call = "read" =>
                ep[e].next_recv_n = ret[e].expected + (IF ret[e].ok THEN 1 ELSE 0)

\* the server has read the device's first DATA record, and one more read of
\* it failed: its counter is 3
ServerCountsThree ==
    /\ ep["server"].next_recv_n = 3
    /\ decoded["server"] = <<DataRecords("device")[1]>>
    /\ delivered["server"] # <<>>
    /\ ret["server"].call = "read"
    /\ ~ret["server"].ok
    /\ ret["server"].expected = 3

\* ------------------------------------------------- the end of the counters
Numbers(recs) == {recs[i].number : i \in 1..Len(recs)}

\* C23: next_send_n and next_recv_n stay 16-bit values and no step takes one
\* of them to a smaller value, and no two records an endpoint wrote carry
\* the same message number
NeverWraps ==
    [][\A e \in Endpoints :
          /\ ep'[e].next_send_n \in 0..U16_MAX
          /\ ep'[e].next_recv_n \in 0..U16_MAX
          /\ ep'[e].next_send_n >= ep[e].next_send_n
          /\ ep'[e].next_recv_n >= ep[e].next_recv_n
          /\ Cardinality(Numbers(emitted'[e])) = Len(emitted'[e])]_vars

\* an endpoint wrote the record with number 65534, its peer accepted it, and
\* the next write found the counter at 65535
CounterAtEnd ==
    \E e \in Endpoints :
       /\ ep[e].next_send_n = U16_MAX
       /\ ep[Peer(e)].next_recv_n = U16_MAX
       /\ emitted[e] # <<>>
       /\ Last(emitted[e]).number = U16_MAX - 1
       /\ Last(decoded[Peer(e)]) = Last(emitted[e])
       /\ ret[e].call = "write"
       /\ ret[e].send_n = U16_MAX
       /\ Len(emitted[e]) = ret[e].emits

\* C24: a write that finds next_send_n at 65535 ends with the endpoint having
\* written an ERROR record (when its stream was open) and shut the stream
\* down, and no DATA record is written
OverflowClosesWithError ==
    \A e \in Endpoints :
       ret[e].call = "write" /\ ret[e].send_n = U16_MAX /\ ret[e].open =>
          /\ ~ret[e].ok
          /\ ~ep[e].open
          /\ Len(emitted[e]) = ret[e].emits + 1
          /\ Last(emitted[e]).opcode = ERROR

\* ------------------------------------------------------------------- write
\* e's last call was a write of len bytes that returned Ok
WriteOk(e) == ret[e].call = "write" /\ ret[e].ok

\* since that call e has written one DATA record, numbered with the send
\* number e held, and moved only its send counter
OneRecordWritten(e) ==
    /\ Len(emitted[e]) = ret[e].emits + 1
    /\ Last(emitted[e]).opcode = MESSAGE
    /\ Last(emitted[e]).number = ret[e].send_n
    /\ Len(Last(emitted[e]).data) = ret[e].n
    /\ ep[e].next_send_n = ret[e].send_n + 1
    /\ ep[e].next_recv_n = ret[e].expected
    /\ ep[e].read_buff = ret[e].held

\* since that call e has written nothing and its counters are the same
NothingWritten(e) ==
    /\ Len(emitted[e]) = ret[e].emits
    /\ ep[e].next_send_n = ret[e].send_n
    /\ ep[e].next_recv_n = ret[e].expected
    /\ ep[e].read_buff = ret[e].held
    /\ ep[e].open = ret[e].open

\* C25 as stated: a write of an empty buffer returns 0 and changes nothing:
\* no record is written and next_send_n is the same
EmptyWriteChangesNothing ==
    \A e \in Endpoints : WriteOk(e) /\ ret[e].n = 0 => NothingWritten(e)

\* C25: a write of an empty buffer returns 0 and is a write like any other:
\* it takes the next send number, writes one DATA record of length 0 (37
\* bytes) and moves next_send_n by 1
EmptyWriteWritesRecord ==
    \A e \in Endpoints :
       WriteOk(e) /\ ret[e].n = 0 =>
          /\ OneRecordWritten(e)
          /\ Last(emitted[e]).data = <<>>
          /\ WidthOf(message(<<>>, SendState(e), ret[e].send_n))
                = HEADER_BYTES + 2 + AUTH_TAG_BYTES + AUTH_TAG_BYTES

\* an endpoint wrote an empty buffer and its peer read the record
EmptyWriteRead ==
    \E e \in Endpoints :
       /\ WriteOk(e)
       /\ ret[e].n = 0
       /\ decoded[Peer(e)] # <<>>
       /\ Last(decoded[Peer(e)]) = Rec(MESSAGE, ret[e].send_n, <<>>)

\* C26: a write of more than 65535 bytes returns InvalidData and leaves the
\* endpoint as it was: nothing is written, next_send_n keeps its value, and
\* the write of a buffer that fits that follows carries that number
OversizedWriteRefused ==
    [][\A e \in Endpoints :
          /\ ret'[e].err = "InvalidData" =>
                /\ ret'[e].call = "write"
                /\ ret'[e].n = 0
                /\ Len(emitted'[e]) = ret'[e].emits
                /\ ep'[e].next_send_n = ret'[e].send_n
                /\ ep'[e].next_recv_n = ret'[e].expected
                /\ ep'[e].read_buff = ret'[e].held
                /\ ep'[e].open = ret'[e].open
                /\ ep'[e].pc = "ready"
          /\ ret[e].err = "InvalidData" /\ ret'[e] # ret[e]
                /\ ret'[e].call = "write" /\ ret'[e].ok =>
                /\ Len(emitted'[e]) = Len(emitted[e]) + 1
                /\ Last(emitted'[e]).number = ret[e].send_n]_vars

\* an endpoint was refused a write of 65536 bytes before it wrote anything,
\* and the record of its next write carries the number it started with
OversizedThenWritten ==
    \E e \in Endpoints :
       /\ WriteOk(e)
       /\ ep[e].writes = 2
       /\ Len(emitted[e]) = 1
       /\ emitted[e][1].opcode = MESSAGE
       /\ emitted[e][1].number \in LateCounters

\* C27: a write of 1 to 65535 bytes that returns Ok has written exactly one
\* DATA record, numbered with next_send_n as it was before the call and
\* carrying the buffer, has moved next_send_n by exactly 1, has left
\* next_recv_n and read_buff alone, and returns the length of the buffer
WriteWritesOneRecord ==
    \A e \in Endpoints :
       WriteOk(e) /\ ret[e].n >= 1 =>
          /\ OneRecordWritten(e)
          /\ ret[e].n <= U16_MAX
          /\ \E r \in {GeneralOf(message(Last(emitted[e]).data, SendState(e),
                                          ret[e].send_n), SendState(e))} :
                /\ r.ok
                /\ r.number = ret[e].send_n
                /\ r.content = <<"Message", Last(emitted[e]).data>>

\* an endpoint that holds bytes in read_buff wrote a buffer
WriteWithResidue ==
    \E e \in Endpoints :
       /\ WriteOk(e)
       /\ ret[e].n >= 1
       /\ ret[e].held # <<>>
       /\ ep[e].read_buff = ret[e].held
       /\ Last(emitted[e]).number = ret[e].send_n

\* --------------------------------------------------- one state a direction
\* the blocks in s that were encrypted under a symmetric state
Ciphertexts(s) == {s[i] : i \in {j \in 1..Len(s) : s[j][1] = "aead"}}

\* e's own DATA and STOP records with the number e expects next, as e's
\* receive::general takes them
OwnRecordsReadBack(e) ==
    { GeneralOf(record, RecvState(e)) :
         record \in { message(Payload(e, len), SendState(e), ep[e].next_recv_n) :
                         len \in 0..MaxLen }
                       \cup {stop(SendState(e), ep[e].next_recv_n)} }

Opcodes == {ERROR, DEVICE_FIRST, SERVER_FIRST, DEVICE_SECOND, MESSAGE, STOP}

\* the commented-out ACK and REKEY, the value after STOP and the last one
UnknownOpcodes == {5, 6, 8, 255}

\* C29: a record whose opcode is none of 0, 1, 2, 3, 4, 7 is refused with
\* InvalidOpcode by every receive function: only its header is read, no key
\* is used, and a read that meets it delivers nothing and changes no counter
UnknownOpcodeRefused ==
    /\ \A opcode \in UnknownOpcodes : \A n \in {0, 1} :
       \A r \in ReceiveAll(construct_header(opcode, n) \o <<B(0), B(0)>>,
                            ep["server"].session_keys) :
          /\ ~r.ok
          /\ r.err = "InvalidOpcode"
          /\ r.rest = <<B(0), B(0)>>
          /\ ~r.crypto
          /\ ~r.lookup
    /\ \A e \in Endpoints : \A i \in 1..Len(rxlog[e]) :
          (/\ Len(rxlog[e][i].taken) >= HEADER_BYTES
           /\ AllBytes(SubSeq(rxlog[e][i].taken, 1, HEADER_BYTES))
           /\ rxlog[e][i].taken[1][2] \notin Opcodes) =>
             /\ ~rxlog[e][i].ok
             /\ rxlog[e][i].err = "InvalidOpcode"
             /\ rxlog[e][i].consumed = HEADER_BYTES
             /\ ~rxlog[e][i].crypto
    /\ \A e \in Endpoints :
          ret[e].call = "read" /\ ret[e].opcode \notin Opcodes =>
             /\ ~ret[e].ok
             /\ ret[e].cause = "InvalidOpcode"
             /\ ret[e].n = 0
             /\ ep[e].read_buff = ret[e].held
             /\ ep[e].next_recv_n = ret[e].expected
             /\ ep[e].next_send_n = ret[e].send_n
             /\ Len(emitted[e]) = ret[e].emits

\* the opcode of a DATA record was changed in flight to 5 or 6 and the read
\* that met it failed with InvalidOpcode, the body left in the stream
UnknownOpcodeRead ==
    \E e \in Endpoints :
       /\ tampered = 1
       /\ ep[e].out_of_step = 0
       /\ ret[e].call = "read"
       /\ ret[e].opcode \in {5, 6}
       /\ ret[e].cause = "InvalidOpcode"
       /\ Len(Source(e)) = 4
       /\ Source(e)[4][1] = "aead"

\* ------------------------------------------- handshake opcodes in a session
\* numbers a handshake record may carry
HandshakeNumbers == {0, 1, 2, U16_MAX}

\* the body of a DEVICE_FIRST record: an ephemeral key and a key id
DeviceFirstBody == <<PkOf(DeviceEphSk), id_of_pk(PkOf(ServerLongSk))>>

\* e's last read met a record with a handshake opcode
HandshakeOpcodeMet(e) ==
    /\ ret[e].call = "read"
    /\ ret[e].opcode \in HandshakeOpcodes
    /\ ep[e].pc # "crashed"

ReadWithResidue(e) ==
    /\ ret[e].call = "read"
    /\ ret[e].held # <<>>
    /\ ep[e].pc # "crashed"

\* C32: a read entered while read_buff is not empty returns bytes from the
\* head of read_buff without a call of receive: no record is taken from the
\* transport and next_recv_n stays
ResidueReadSkipsReceive ==
    \A e \in Endpoints :
       ReadWithResidue(e) =>
          /\ ret[e].ok
          /\ ~ret[e].got
          /\ ret[e].n >= 1 \/ ep[e].read_buff = ret[e].held
          /\ ep[e].next_recv_n = ret[e].expected

\* C33: while bytes of a payload are left in read_buff, a read returns
\* without waiting for another record, so that repeated reads deliver the
\* whole payload when the peer sends nothing more
ResidueReadReturns ==
    \A e \in Endpoints :
       (/\ ep[e].pc = "ready"
        /\ ep[e].read_buff # <<>>
        /\ ep[e].open
        /\ ep[Peer(e)].open) => CanRead(e)

\* ------------------------------------------- the answer to a wrong number
\* e's last call was a read, entered with the stream open, to which
\* receive::general returned a record with another number than expected
WrongNumberMet(e) ==
    /\ ret[e].call = "read"
    /\ ret[e].got
    /\ ret[e].number # ret[e].expected
    /\ ret[e].open

\* C36: an endpoint that refuses a record for its number writes exactly one
\* ERROR record numbered with the next_send_n it held, next_send_n goes up
\* by one, next_recv_n stays and the stream is shut down
WrongNumberAnswered ==
    \A e \in Endpoints :
       WrongNumberMet(e) =>
          /\ ~ret[e].ok
          /\ ret[e].err = "BadMessageN"
          /\ Len(emitted[e]) = ret[e].emits + 1
          /\ Last(emitted[e]) = Rec(ERROR, ret[e].send_n, <<>>)
          /\ ep[e].next_send_n = ret[e].send_n + 1
          /\ ep[e].next_recv_n = ret[e].expected
          /\ ~ep[e].open

\* ------------------------------------------------- the transport in time
\* C31: a record that arrives in several segments is read to its end and
\* decoded; a read fails with NotEnoughRead only when the stream has ended
\* (one of the two sockets was shut down) before the bytes asked for came
ShortReadOnlyAtEnd ==
    \A e \in Endpoints :
       ret[e].call = "read" /\ ret[e].cause = "NotEnoughRead" =>
          ~ep[Peer(e)].open \/ ~ret[e].open

\* e's last call was a read that failed with the error of the read timeout
TimedOut(e) == ret[e].call = "read" /\ ret[e].err = "WouldBlock"

\* the bytes of s, whenever they arrive, are the first bytes of t
SameBytesAhead(s, t) == IsPrefix(WithoutGaps(s), WithoutGaps(t))

\* C34: with a read timeout set, a read that finds no byte on the transport
\* fails with the transport's own error (WouldBlock), not with the error
\* general_read makes up for the errors of receive; next_recv_n,
\* next_send_n and read_buff stay, nothing is written, nothing is taken from
\* the stream; without a timeout no read fails so
TimeoutLeavesState ==
    \A e \in Endpoints :
       /\ ret[e].call = "read" /\ ret[e].cause = "Read" => TimedOut(e)
       /\ TimedOut(e) =>
             /\ ep[e].timeout
             /\ ret[e].cause = "Read"
             /\ ~ret[e].ok
             /\ ~ret[e].got
             /\ ret[e].n = 0
       /\ TimedOut(e) /\ ret[e].source[1][1] = "late" =>
             /\ ep[e].next_recv_n = ret[e].expected
             /\ ep[e].next_send_n = ret[e].send_n
             /\ ep[e].read_buff = ret[e].held
             /\ Len(emitted[e]) = ret[e].emits
             /\ ep[e].open = ret[e].open
             /\ SameBytesAhead(ret[e].source, Source(e))

\* a read with a timeout on a transport that held nothing timed out; the
\* record that arrived afterwards was not read yet
TimedOutOnNothing ==
    \E e \in Endpoints :
       /\ TimedOut(e)
       /\ ret[e].source = << <<"late">> >>
       /\ Len(Source(e)) = 7
       /\ ep[e].next_recv_n = ret[e].expected

\* C37: a read that fails with the error of the timeout has taken no byte
\* from the stream, so that the next read starts at the first byte of the
\* record the timeout fell in
TimeoutConsumesNothing ==
    \A e \in Endpoints :
       TimedOut(e) => SameBytesAhead(ret[e].source, Source(e))

\* ------------------------------------------------------ records sent twice
\* e's last call was a read to which receive::general returned a DATA record
\* with a number e had accepted before
OldRecordMet(e) ==
    /\ ret[e].call = "read"
    /\ ret[e].got
    /\ ret[e].opcode = MESSAGE
    /\ ret[e].number < ret[e].expected

\* C38: a DATA record that was accepted is not accepted again: the read that
\* meets its bytes a second time fails, read_buff and next_recv_n stay, and
\* the payloads that went to read_buff are those the peer wrote, in order,
\* each once
AcceptedAtMostOnce ==
    \A e \in Endpoints :
       /\ IsPrefix(delivered[e] \o ep[e].read_buff, written(Peer(e)))
       /\ OldRecordMet(e) =>
             /\ ~ret[e].ok
             /\ ret[e].n = 0
             /\ ep[e].read_buff = ret[e].held
             /\ ep[e].next_recv_n = ret[e].expected

\* a DATA record with a payload was read and accepted, sent once more on the
\* wire, verified again and refused for its number
ReplayRefused ==
    \E e \in Endpoints :
       /\ tampered = 1
       /\ OldRecordMet(e)
       /\ ret[e].err = "BadMessageN"
       /\ Len(decoded[e]) = 2
       /\ decoded[e][1] = decoded[e][2]
       /\ decoded[e][1].data # <<>>
       /\ delivered[e] \o ep[e].read_buff = decoded[e][1].data

\* ------------------------------------------------ reads that do not decode
\* the errors of receive::general
DecodeErrors == {"Crypto", "InvalidOpcode", "BadPacket", "NotEnoughRead", "Read"}

\* C39: a read in which receive::general fails leaves next_recv_n,
\* next_send_n and read_buff as they were, writes nothing and leaves the
\* socket as it was
DecodeFailureLeavesState ==
    \A e \in Endpoints :
       ret[e].call = "read" /\ ret[e].cause \in DecodeErrors =>
          /\ ~ret[e].ok
          /\ ret[e].err \in {"Receiving", "WouldBlock"}
          /\ ~ret[e].got
          /\ ret[e].n = 0
          /\ ep[e].next_recv_n = ret[e].expected
          /\ ep[e].next_send_n = ret[e].send_n
          /\ ep[e].read_buff = ret[e].held
          /\ Len(emitted[e]) = ret[e].emits
          /\ ep[e].open = ret[e].open
          /\ ep[e].pc = "ready"

\* a read entered with a byte in read_buff failed with Crypto
DecodeFailureWithResidue ==
    \E e \in Endpoints :
       /\ ret[e].call = "read"
       /\ ret[e].cause = "Crypto"
       /\ ret[e].held # <<>>
       /\ ep[e].read_buff = ret[e].held
       /\ ret[e].expected > PostHandshakeRecv(e)


\* ------------------------------------------------ C40: a replayed DEVICE_SECOND
\* connection k as the variables and the parked record hold it
Conn(k) == IF other.now = k THEN ThisSession ELSE other.parked[1]

\* x, a receive call of a server, read the DEVICE_SECOND that the client of
\* connection t wrote in its own key exchange
CapturedSecond(x, t) ==
    /\ x.call = "device_second"
    /\ x.opcode = DEVICE_SECOND
    /\ Conn(t).ep["device"].pc = "ready"
    /\ \E i \in 1..Len(x.taken) :
          /\ x.taken[i][1] = "aead"
          /\ x.taken[i][2] = Conn(t).ep["device"].session_keys.from_device

ReplayedSeconds(k) ==
    {i \in 1..Len(Conn(k).rxlog["server"]) :
        CapturedSecond(Conn(k).rxlog["server"][i], 3 - k)}

\* C40: a DEVICE_SECOND record that the client of one connection wrote is
\* refused by the server of the other connection, whose ephemeral key and
\* challenge are new: receive::device_second returns Crypto and that server
\* does not become READY
ReplayedSecondRefused ==
    \A k \in Connections : \A i \in ReplayedSeconds(k) :
        /\ ~Conn(k).rxlog["server"][i].ok
        /\ Conn(k).rxlog["server"][i].err = "Crypto"
        /\ Conn(k).ep["server"].pc # "ready"

\* the server of the second connection has read the first connection's
\* DEVICE_SECOND
ReplayedSecondRead ==
    /\ other.now = 2
    /\ tampered > 0
    /\ ReplayedSeconds(2) # {}


\* ------------------------------------------------ C35: concurrent connections
\* the client of connection k has read the echo
Echoed(k) ==
    /\ Conn(k).ep["device"].pc = "ready"
    /\ Conn(k).ep["server"].pc = "ready"
    /\ Conn(k).ret["device"].call = "read"

\* what the client of connection k read is what it wrote
EchoedBack(k) ==
    Conn(k).ret["device"].call = "read"
        => /\ Conn(k).ret["device"].ok
           /\ Conn(k).ret["device"].n = Len(BytesOf(Conn(k).emitted["device"]))
           /\ Conn(k).delivered["device"] = BytesOf(Conn(k).emitted["device"])

\* the keys of connection k come from the secrets of connection k
OwnKeys(k) ==
    \A e \in Endpoints :
       Conn(k).ep[e].pc = "ready"
           => Conn(k).ep[e].session_keys
                 = server_first_keys(ServerLongSk, EphSkOf("server", k),
                                     PkOf(EphSkOf("device", k)),
                                     PkOf(LongSkOf("device", k)))

\* the counters of connection k count the records of connection k
OwnCounters(k) ==
    \A e \in Endpoints :
       Conn(k).ep[e].pc = "ready"
           => /\ Conn(k).ep[e].next_send_n = Len(Conn(k).emitted[e])
              /\ Conn(k).ep[e].next_recv_n
                    = Conn(k).ep[e].expected_next_n + Len(Conn(k).decoded[e])

\* no two connections have a key in common
KeysApart ==
    \A e \in Endpoints, f \in Endpoints :
       Conn(1).ep[e].pc = "ready" /\ Conn(2).ep[f].pc = "ready"
           => {Conn(1).ep[e].session_keys.from_device,
               Conn(1).ep[e].session_keys.from_server}
                 \cap {Conn(2).ep[f].session_keys.from_device,
                       Conn(2).ep[f].session_keys.from_server} = {}

EachSessionItsOwn ==
    /\ KeysApart
    /\ \A k \in Connections : EchoedBack(k) /\ OwnKeys(k) /\ OwnCounters(k)

\* a step of one connection leaves the other connection as it was
OtherUntouched ==
    \/ other' = other
    \/ other'.now # other.now /\ Conn(1)' = Conn(1) /\ Conn(2)' = Conn(2)

\* C35: with two connections to the same server running concurrently, in
\* every interleaving both key exchanges complete and both clients read back
\* the payload they wrote, and no step of one connection changes the keys,
\* the counters or the data of the other
SessionsIndependent ==
    /\ []EachSessionItsOwn
    /\ [][OtherUntouched]_vars
    /\ <>(\A k \in Connections : Echoed(k))

\* both clients have read their echo, of payloads of different lengths
BothEchoed ==
    /\ \A k \in Connections : Echoed(k)
    /\ Len(Conn(1).delivered["device"]) # Len(Conn(2).delivered["device"])

====
